---- MODULE Spec2Model ----
(***************************************************************************)
(* Helm chart visualizer: reference extraction (template-parser.ts), YAML  *)
(* flattening (yaml-parser.ts), chart assembly (parseHelmChart), graph     *)
(* building and layout (graph-builder.ts).                                 *)
(*                                                                         *)
(* A JavaScript string is a sequence of lexemes.  A lexeme is one          *)
(* character such as ".", "[", "/" or a blank, or a word of letters such   *)
(* as "Values" or "templates", or a file extension such as ".yaml".  The   *)
(* lexemes of every string are fixed by the vocabulary below, so two       *)
(* lexeme sequences are equal exactly when the strings are.  A template    *)
(* literal `${a}:${b}` is the concatenation a \o <<":">> \o b.             *)
(***************************************************************************)
EXTENDS Integers, Sequences, FiniteSets, TLC

VARIABLES
    files,        \* parseHelmChart's input Map<rawPath, content>, in insertion order
    chart,        \* what parseHelmChart(files) gave: a HelmChart or an exception
    graph,        \* what buildGraphData(chart) gave
    templateText, \* a template's content handed to extractReferences
    references,   \* the Reference[] extractReferences returned for it
    helperText,   \* a helper file's content handed to extractHelperDefinitions
    helpers,      \* the HelperDefinition[] it returned
    raw,          \* a configuration tree handed to flattenValues
    flatKeys,     \* the ValueKey[] flattenValues returned
    lookups,      \* getValueByPath(raw, flatKeys[i].path) for every i
    nodes,        \* a node list handed to autoOrganizeLayout
    edges,        \* the edge list handed with it
    layout1,      \* autoOrganizeLayout(nodes, edges)
    layout2,      \* autoOrganizeLayout(layout1, edges)
    filterPath,   \* the file path handed to filterGraphByFile with graph
    filtered,     \* filterGraphByFile(graph, filterPath)
    dropped,      \* e.dataTransfer.items of a drop, as webkitGetAsEntry gives them
    frames,       \* the calls of handleDrop and readDirectoryEntry that are awaiting
    pending,      \* the file read or directory listing that is under way
    calls,        \* how many reads and listings were started and have called back
    delivered,    \* the mappings onFilesDropped was invoked with
    error,        \* the message setError was last given
    sweepColumns, \* columnNodes of the layout that is being refined, after the first sort
    sweepPositions, \* the nodePositions Map of that layout
    sweepIteration, \* the iteration the refinement loop is at
    sweepColIndex, \* the colIndex the inner loop is at
    sweepSorted,  \* the column indexes optimizeColumnOrder was called with, in call order
    helmChart,    \* App's helmChart state: Null or the HelmChart on display
    selectedFile, \* App's selectedFile state: Null or a path
    isLoading,    \* App's isLoading state
    inFlight,     \* the files Maps of the handleDrop calls whose reads are under way
    fileTree,     \* FileTree's fileTree: buildFileTree(helmChart.files)
    pc            \* the step each of the runs above is at

vars == <<files, chart, graph, templateText, references, helperText, helpers,
          raw, flatKeys, lookups, nodes, edges, layout1, layout2,
          filterPath, filtered, dropped, frames, pending, calls, delivered, error,
          sweepColumns, sweepPositions, sweepIteration, sweepColIndex, sweepSorted,
          helmChart, selectedFile, isLoading, inFlight, fileTree, pc>>

(***************************************************************************)
(* Bounds of the model.                                                    *)
(***************************************************************************)
MaxFiles == 2
MaxTemplateChunks == 5
MaxHelperChunks == 5
MaxArrayLen == 2
MaxNodes == 3
MaxEdges == 2
MaxDropItems == 2
MaxDirEntries == 3
MaxInFlight == 2
MaxDrops == 3

(***************************************************************************)
(* Strings.                                                                *)
(***************************************************************************)
\* the array <<F(1), ..., F(n)>>
array(n, F(_)) ==
    LET RECURSIVE from(_)
        from(k) == IF k > n THEN <<>> ELSE <<F(k)>> \o from(k + 1)
    IN  from(1)

\* Array.prototype.map
map(seq, F(_)) == array(Len(seq), LAMBDA k : F(seq[k]))

Range(s) == {s[i] : i \in 1..Len(s)}

Min(S) == CHOOSE m \in S : \A n \in S : m <= n

\* Words made of letters only: [a-zA-Z]+ matches each of them whole.
Words == {"a", "b", "h", "g", "Values", "Chart", "Release", "Files", "Capabilities",
          "Name", "Get", "include", "template", "define", "end", "if"}

Digits == {"0", "1", "2", "3", "4", "5", "6", "7", "8", "9"}

\* \s
Whitespace == {" ", "\n"}

\* [a-zA-Z_] and [a-zA-Z0-9_]
IsIdentStart(l) == l \in Words \/ l = "_"
IsIdentChar(l) == l \in Words \/ l \in Digits \/ l = "_"

\* String.prototype.split(sep)
RECURSIVE split(_, _)
split(s, sep) ==
    IF \E i \in 1..Len(s) : s[i] = sep
    THEN LET i == Min({k \in 1..Len(s) : s[k] = sep})
         IN  <<SubSeq(s, 1, i - 1)>> \o split(SubSeq(s, i + 1, Len(s)), sep)
    ELSE <<s>>

\* Array.prototype.join(sep)
RECURSIVE join(_, _)
join(parts, sep) ==
    IF Len(parts) = 0 THEN <<>>
    ELSE IF Len(parts) = 1 THEN parts[1]
    ELSE parts[1] \o <<sep>> \o join(Tail(parts), sep)

\* String.prototype.trim()
RECURSIVE trim(_)
trim(s) ==
    IF Len(s) > 0 /\ s[1] \in Whitespace THEN trim(Tail(s))
    ELSE IF Len(s) > 0 /\ s[Len(s)] \in Whitespace THEN trim(SubSeq(s, 1, Len(s) - 1))
    ELSE s

\* the position after the run of lexemes of class S that starts at j
RECURSIVE skip(_, _, _)
skip(s, j, S) == IF j <= Len(s) /\ s[j] \in S THEN skip(s, j + 1, S) ELSE j

At(s, j, l) == j >= 1 /\ j <= Len(s) /\ s[j] = l

\* `"([^"]+)"` at j: the position of the closing quote, 0 when it does not match
quotedClose(s, j) ==
    IF At(s, j, "\"")
    THEN LET closes == {k \in (j + 1)..Len(s) : s[k] = "\""}
         IN  IF closes = {} THEN 0
             ELSE IF Min(closes) >= j + 2 THEN Min(closes) ELSE 0
    ELSE 0

(***************************************************************************)
(* template-parser.ts: the six regular expressions.  xxxMatchEnd(s, i) is  *)
(* the position after the match that starts at i, 0 when the expression    *)
(* does not match at i.                                                    *)
(***************************************************************************)

\* one `\.[a-zA-Z_][a-zA-Z0-9_]*` or `\[[^\]]+\]` at j
valuesSegmentEnd(s, j) ==
    IF At(s, j, ".") /\ j + 1 <= Len(s) /\ IsIdentStart(s[j + 1])
    THEN skip(s, j + 2, Words \cup Digits \cup {"_"})
    ELSE IF At(s, j, "[")
    THEN LET closes == {k \in (j + 1)..Len(s) : s[k] = "]"}
         IN  IF closes = {} THEN 0
             ELSE IF Min(closes) >= j + 2 THEN Min(closes) + 1 ELSE 0
    ELSE 0

\* the group without its `+`: one segment only
valuesOneSegmentEnd(s, j) ==
    IF valuesSegmentEnd(s, j) = 0 THEN j ELSE valuesSegmentEnd(s, j)

\* `(?: ... )+`, greedy
RECURSIVE valuesSegmentsEnd(_, _)
valuesSegmentsEnd(s, j) ==
    LET e == valuesSegmentEnd(s, j)
    IN  IF e = 0 THEN j ELSE valuesSegmentsEnd(s, e)

\* /\.Values((?:\.[a-zA-Z_][a-zA-Z0-9_]*|\[[^\]]+\])+)/
valuesMatchEnd(s, i) ==
    IF At(s, i, ".") /\ At(s, i + 1, "Values")
    THEN LET e == valuesSegmentsEnd(s, i + 2)
         IN  IF e > i + 2 THEN e ELSE 0
    ELSE 0

\* /\{\{\s*(?:-\s*)?KEYWORD\s+"([^"]+)"/ : the position of the opening quote
includeQuoteAt(s, i, keyword) ==
    IF At(s, i, "{{")
    THEN LET j1 == skip(s, i + 1, Whitespace)
             j2 == IF At(s, j1, "-") THEN skip(s, j1 + 1, Whitespace) ELSE j1
             j3 == skip(s, j2 + 1, Whitespace)
         IN  IF At(s, j2, keyword) /\ j3 > j2 + 1 /\ quotedClose(s, j3) # 0
             THEN j3 ELSE 0
    ELSE 0

includeMatchEnd(s, i, keyword) ==
    LET q == includeQuoteAt(s, i, keyword)
    IN  IF q = 0 THEN 0 ELSE quotedClose(s, q) + 1

\* /\.Chart\.([a-zA-Z]+)/ and /\.Release\.([a-zA-Z]+)/
propertyMatchEnd(s, i, object) ==
    IF At(s, i, ".") /\ At(s, i + 1, object) /\ At(s, i + 2, ".")
    THEN LET e == skip(s, i + 3, Words)
         IN  IF e > i + 3 THEN e ELSE 0
    ELSE 0

\* /\.Files\.([a-zA-Z]+)\s*(?:"([^"]+)")?/
filesMatchEnd(s, i) ==
    LET m == propertyMatchEnd(s, i, "Files")
    IN  IF m = 0 THEN 0
        ELSE LET w == skip(s, m, Whitespace)
             IN  IF quotedClose(s, w) # 0 THEN quotedClose(s, w) + 1 ELSE w

\* one `\.[a-zA-Z]+`, then the rest of `(?: ... )+`
RECURSIVE capabilitiesSegmentsEnd(_, _)
capabilitiesSegmentsEnd(s, j) ==
    IF At(s, j, ".") /\ skip(s, j + 1, Words) > j + 1
    THEN capabilitiesSegmentsEnd(s, skip(s, j + 1, Words))
    ELSE j

\* /\.Capabilities((?:\.[a-zA-Z]+)+)/
capabilitiesMatchEnd(s, i) ==
    IF At(s, i, ".") /\ At(s, i + 1, "Capabilities")
    THEN LET e == capabilitiesSegmentsEnd(s, i + 2)
         IN  IF e > i + 2 THEN e ELSE 0
    ELSE 0

\* while ((match = regex.exec(s)) !== null) with the g flag: the start positions
\* of the successive matches, each search resuming after the previous match;
\* MatchEnd is the regular expression
execAll(MatchEnd(_, _), s, start) ==
    LET RECURSIVE from(_, _)
        \* e is MatchEnd(s, i)
        from(i, e) ==
            IF i > Len(s) THEN <<>>
            ELSE IF e # 0 THEN <<i>> \o from(e, MatchEnd(s, e))
            ELSE from(i + 1, MatchEnd(s, i + 1))
    IN  from(start, MatchEnd(s, start))

\* .replace(/^\./, '')
stripLeadingDot(s) == IF At(s, 1, ".") THEN Tail(s) ELSE s

Reference(id, type, file, lineNum, targetType, path, expression) ==
    [id |-> id, type |-> type, source |-> [file |-> file, line |-> lineNum],
     target |-> [type |-> targetType, path |-> path],
     expression |-> expression, line |-> lineNum]

\* `${filePath}:${lineNum}:TYPE:${key}`
referenceId(filePath, lineNum, type, key) ==
    filePath \o <<":", ToString(lineNum), ":", type, ":">> \o key

extractValuesReferences(s, filePath, lineNum) ==
    LET ref(i) == LET fullPath == SubSeq(s, i, valuesMatchEnd(s, i) - 1)
                      path == stripLeadingDot(SubSeq(s, i + 2, valuesMatchEnd(s, i) - 1))
                  IN  Reference(referenceId(filePath, lineNum, "values", path), "values",
                                filePath, lineNum, "value", path, fullPath)
    IN  map(execAll(valuesMatchEnd, s, 1), ref)

includeReferences(s, filePath, lineNum, keyword) ==
    LET MatchEnd(t, i) == includeMatchEnd(t, i, keyword)
        ref(i) == LET q == includeQuoteAt(s, i, keyword)
                      helperName == SubSeq(s, q + 1, quotedClose(s, q) - 1)
                  IN  Reference(referenceId(filePath, lineNum, keyword, helperName), keyword,
                                filePath, lineNum, "helper", helperName,
                                SubSeq(s, i, quotedClose(s, q)))
    IN  map(execAll(MatchEnd, s, 1), ref)

extractIncludeReferences(s, filePath, lineNum) ==
    includeReferences(s, filePath, lineNum, "include")
        \o includeReferences(s, filePath, lineNum, "template")

propertyReferences(s, filePath, lineNum, object, type) ==
    LET MatchEnd(t, i) == propertyMatchEnd(t, i, object)
        ref(i) == LET property == SubSeq(s, i + 3, propertyMatchEnd(s, i, object) - 1)
                  IN  Reference(referenceId(filePath, lineNum, type, property), type,
                                filePath, lineNum, type, property,
                                SubSeq(s, i, propertyMatchEnd(s, i, object) - 1))
    IN  map(execAll(MatchEnd, s, 1), ref)

extractChartReferences(s, filePath, lineNum) ==
    propertyReferences(s, filePath, lineNum, "Chart", "chart")

extractReleaseReferences(s, filePath, lineNum) ==
    propertyReferences(s, filePath, lineNum, "Release", "release")

extractFilesReferences(s, filePath, lineNum) ==
    LET ref(i) == LET m == propertyMatchEnd(s, i, "Files")
                      method == SubSeq(s, i + 3, m - 1)
                      w == skip(s, m, Whitespace)
                      arg == IF quotedClose(s, w) # 0
                             THEN SubSeq(s, w + 1, quotedClose(s, w) - 1) ELSE <<>>
                  IN  Reference(referenceId(filePath, lineNum, "files", method \o <<":">> \o arg),
                                "files", filePath, lineNum, "file",
                                IF arg # <<>> THEN arg ELSE method,
                                SubSeq(s, i, filesMatchEnd(s, i) - 1))
    IN  map(execAll(filesMatchEnd, s, 1), ref)

extractCapabilitiesReferences(s, filePath, lineNum) ==
    LET ref(i) == LET path == stripLeadingDot(SubSeq(s, i + 2, capabilitiesMatchEnd(s, i) - 1))
                  IN  Reference(referenceId(filePath, lineNum, "capabilities", path),
                                "capabilities", filePath, lineNum, "capability", path,
                                SubSeq(s, i, capabilitiesMatchEnd(s, i) - 1))
    IN  map(execAll(capabilitiesMatchEnd, s, 1), ref)

\* the body of lines.forEach in extractReferences
lineReferences(s, filePath, lineNum) ==
    extractValuesReferences(s, filePath, lineNum)
        \o extractIncludeReferences(s, filePath, lineNum)
        \o extractChartReferences(s, filePath, lineNum)
        \o extractReleaseReferences(s, filePath, lineNum)
        \o extractFilesReferences(s, filePath, lineNum)
        \o extractCapabilitiesReferences(s, filePath, lineNum)

RECURSIVE linesReferences(_, _, _)
linesReferences(lines, filePath, lineIndex) ==
    IF lineIndex >= Len(lines) THEN <<>>
    ELSE lineReferences(lines[lineIndex + 1], filePath, lineIndex + 1)
             \o linesReferences(lines, filePath, lineIndex + 1)

extractReferences(text, filePath) == linesReferences(split(text, "\n"), filePath, 0)

(***************************************************************************)
(* template-parser.ts: helper definitions.                                 *)
(***************************************************************************)

\* /\{\{-?\s*define\s+"([^"]+)"\s*-?\}\}/ : the position of the opening quote
defineQuoteAt(s, i) ==
    IF At(s, i, "{{")
    THEN LET j1 == IF At(s, i + 1, "-") THEN i + 2 ELSE i + 1
             j2 == skip(s, j1, Whitespace)
             j3 == skip(s, j2 + 1, Whitespace)
         IN  IF At(s, j2, "define") /\ j3 > j2 + 1 /\ quotedClose(s, j3) # 0
             THEN j3 ELSE 0
    ELSE 0

\* the position after the `}}` of the define marker that starts at i, 0 when none does
defineOpenEnd(s, i) ==
    LET q == defineQuoteAt(s, i)
    IN  IF q = 0 THEN 0
        ELSE LET j1 == skip(s, quotedClose(s, q) + 1, Whitespace)
                 j2 == IF At(s, j1, "-") THEN j1 + 1 ELSE j1
             IN  IF At(s, j2, "}}") THEN j2 + 1 ELSE 0

\* /\{\{-?\s*end\s*-?\}\}/ at k: the position after it, 0 when it does not match
endMarkerEnd(s, k) ==
    IF At(s, k, "{{")
    THEN LET j1 == IF At(s, k + 1, "-") THEN k + 2 ELSE k + 1
             j2 == skip(s, j1, Whitespace)
             j3 == skip(s, j2 + 1, Whitespace)
             j4 == IF At(s, j3, "-") THEN j3 + 1 ELSE j3
         IN  IF At(s, j2, "end") /\ At(s, j4, "}}") THEN j4 + 1 ELSE 0
    ELSE 0

\* `([\s\S]*)`, greedy, followed by the end marker: where the last end marker
\* at or after position b starts
greedyBodyEnd(s, b) ==
    LET ends == {k \in b..Len(s) : endMarkerEnd(s, k) # 0}
    IN  IF ends = {} THEN 0 ELSE CHOOSE k \in ends : \A m \in ends : m <= k

\* `([\s\S]*?)` followed by the end marker: where the nearest end marker at or
\* after position b starts, 0 when there is none
lazyBodyEnd(s, b) ==
    LET ends == {k \in b..Len(s) : endMarkerEnd(s, k) # 0}
    IN  IF ends = {} THEN 0 ELSE Min(ends)

\* defineRegex at i: the position after the whole match, 0 when it does not match
defineMatchEnd(s, i) ==
    LET b == defineOpenEnd(s, i)
    IN  IF b = 0 \/ lazyBodyEnd(s, b) = 0 THEN 0
        ELSE endMarkerEnd(s, lazyBodyEnd(s, b))

extractHelperDefinitions(text, filePath) ==
    LET helper(i) ==
            LET q == defineQuoteAt(text, i)
                b == defineOpenEnd(text, i)
                lineNum == Cardinality({k \in 1..(i - 1) : text[k] = "\n"}) + 1
            IN  [name |-> SubSeq(text, q + 1, quotedClose(text, q) - 1),
                 file |-> filePath,
                 line |-> lineNum,
                 content |-> trim(SubSeq(text, b, lazyBodyEnd(text, b) - 1))]
    IN  map(execAll(defineMatchEnd, text, 1), helper)

(***************************************************************************)
(* yaml-parser.ts.  A JavaScript value is a record: [t |-> "undefined"],   *)
(* [t |-> "null"], a primitive [t |-> "string" | "number" | "boolean",     *)
(* v |-> its text], [t |-> "array", items |-> <<...>>] or [t |-> "object", *)
(* keys |-> <<...>>, vals |-> <<...>>] with the keys in insertion order.   *)
(***************************************************************************)
Undefined == [t |-> "undefined"]
Null == [t |-> "null"]
JsString(v) == [t |-> "string", v |-> v]
JsNumber(v) == [t |-> "number", v |-> v]
JsArray(items) == [t |-> "array", items |-> items]
JsObject(keys, vals) == [t |-> "object", keys |-> keys, vals |-> vals]

IsPrimitive(x) == x.t \in {"string", "number", "boolean"}

\* x is truthy: what `x || d` and `x ? a : b` test
truthy(x) ==
    CASE x.t \in {"undefined", "null"} -> FALSE
      [] x.t = "string" -> x.v # <<>>
      [] x.t = "number" -> x.v # <<"0">>
      [] x.t = "boolean" -> x.v = <<"true">>
      [] OTHER -> TRUE

\* x[part] for an x that is not null or undefined: an own key of an object, an
\* index of an array, nothing else
getProperty(x, part) ==
    CASE x.t = "object" ->
            IF \E i \in 1..Len(x.keys) : x.keys[i] = part
            THEN x.vals[CHOOSE i \in 1..Len(x.keys) : x.keys[i] = part]
            ELSE Undefined
      [] x.t = "array" ->
            IF \E i \in 1..Len(x.items) : part = <<ToString(i - 1)>>
            THEN x.items[CHOOSE i \in 1..Len(x.items) : part = <<ToString(i - 1)>>]
            ELSE Undefined
      [] OTHER -> Undefined

\* String(x)
RECURSIVE String(_)
String(x) ==
    CASE IsPrimitive(x) -> x.v
      [] x.t = "array" ->
            join([i \in 1..Len(x.items) |->
                     IF x.items[i].t \in {"undefined", "null"} THEN <<>>
                     ELSE String(x.items[i])], ",")
      [] x.t = "object" -> <<"[object Object]">>
      [] OTHER -> <<x.t>>

\* js-yaml's load on the documents of the model: empty text is undefined, a
\* flow sequence that is never closed is a YAMLException, lines `key: scalar`
\* are a mapping, any other text is a plain scalar.
yamlScalar(v) == IF Range(v) \subseteq Digits /\ v # <<>> THEN JsNumber(v) ELSE JsString(v)

IsMappingLine(l) == Len(l) >= 4 /\ l[2] = ":" /\ l[3] = " "

yamlLines(text, lines) ==
    IF \A i \in 1..Len(lines) : IsMappingLine(lines[i])
    THEN [threw |-> FALSE,
          value |-> JsObject(map(lines, LAMBDA l : <<l[1]>>),
                             map(lines, LAMBDA l : yamlScalar(SubSeq(l, 4, Len(l)))))]
    ELSE [threw |-> FALSE, value |-> yamlScalar(text)]

yamlLoad(text) ==
    IF text = <<>> THEN [threw |-> FALSE, value |-> Undefined]
    ELSE IF "[" \in Range(text) /\ "]" \notin Range(text)
    THEN [threw |-> TRUE, value |-> Undefined]
    ELSE yamlLines(text, split(text, "\n"))

\* `x ? String(x) : undefined`
optionalString(x) == IF truthy(x) THEN JsString(String(x)) ELSE Undefined

\* `String(x || d)`
stringOr(x, d) == IF truthy(x) THEN String(x) ELSE d

\* parseDependencies: reading d.name throws when an item is null or undefined
parseDependencies(deps) ==
    IF deps.t # "array" THEN [threw |-> FALSE, value |-> <<>>]
    ELSE IF \E i \in 1..Len(deps.items) : deps.items[i].t \in {"undefined", "null"}
    THEN [threw |-> TRUE, value |-> <<>>]
    ELSE [threw |-> FALSE,
          value |-> [i \in 1..Len(deps.items) |->
              LET d == deps.items[i]
              IN  [name |-> stringOr(getProperty(d, <<"name">>), <<>>),
                   version |-> stringOr(getProperty(d, <<"version">>), <<>>),
                   repository |-> optionalString(getProperty(d, <<"repository">>)),
                   condition |-> optionalString(getProperty(d, <<"condition">>)),
                   alias |-> optionalString(getProperty(d, <<"alias">>))]]]

\* parseChartYaml: yaml.load is not guarded, and parsed.name throws a TypeError
\* when the document is empty (parsed is undefined) or null
chartYamlOf(loaded, dependencies) ==
    IF loaded.threw \/ loaded.value.t \in {"undefined", "null"} \/ dependencies.threw
    THEN [threw |-> TRUE]
    ELSE [threw |-> FALSE,
          value |->
             [name |-> stringOr(getProperty(loaded.value, <<"name">>), <<"unknown">>),
              version |-> stringOr(getProperty(loaded.value, <<"version">>),
                                   <<"0", ".", "0", ".", "0">>),
              apiVersion |-> stringOr(getProperty(loaded.value, <<"apiVersion">>),
                                      <<"v", "2">>),
              description |-> optionalString(getProperty(loaded.value, <<"description">>)),
              type |-> optionalString(getProperty(loaded.value, <<"type">>)),
              appVersion |-> optionalString(getProperty(loaded.value, <<"appVersion">>)),
              dependencies |-> JsArray(dependencies.value)]]

loadedChartYaml(loaded) ==
    chartYamlOf(loaded, parseDependencies(getProperty(loaded.value, <<"dependencies">>)))

parseChartYaml(text) == loadedChartYaml(yamlLoad(text))

getValueType(value) ==
    CASE value.t = "null" -> "null"
      [] value.t = "array" -> "array"
      [] value.t \in {"string", "number", "boolean", "object"} -> value.t
      [] OTHER -> "string"

ValueKey(path, value, type) ==
    [path |-> path, fullPath |-> <<".", "Values", ".">> \o path, value |-> value, type |-> type]

\* flattenValues(obj, prefix, result): what the call appends to result
RECURSIVE flattenValues(_, _)
flattenValues(obj, prefix) ==
    IF obj.t \in {"null", "undefined"} THEN <<>>
    ELSE IF obj.t \notin {"array", "object"}
    THEN <<ValueKey(prefix, obj, getValueType(obj))>>
    ELSE IF obj.t = "array"
    THEN LET RECURSIVE items(_)
             items(index) ==
                 IF index >= Len(obj.items) THEN <<>>
                 ELSE flattenValues(obj.items[index + 1],
                                    IF prefix # <<>>
                                    THEN prefix \o <<"[", ToString(index), "]">>
                                    ELSE <<"[", ToString(index), "]">>)
                          \o items(index + 1)
         IN  <<ValueKey(prefix, obj, "array")>> \o items(0)
    ELSE LET RECURSIVE entries(_)
             entries(k) ==
                 IF k > Len(obj.keys) THEN <<>>
                 ELSE flattenValues(obj.vals[k],
                                    IF prefix # <<>> THEN prefix \o <<".">> \o obj.keys[k]
                                    ELSE obj.keys[k])
                          \o entries(k + 1)
         IN  (IF prefix # <<>> THEN <<ValueKey(prefix, obj, "object")>> ELSE <<>>)
                 \o entries(1)

\* parseValuesYaml: `yaml.load(content) || {}` inside try, `{}` in catch
flattenedValues(rawValue) == [raw |-> rawValue, flatKeys |-> flattenValues(rawValue, <<>>)]

loadedValues(loaded) ==
    flattenedValues(IF loaded.threw \/ ~truthy(loaded.value)
                    THEN JsObject(<<>>, <<>>) ELSE loaded.value)

parseValuesYaml(text) == loadedValues(yamlLoad(text))

\* the loop of getValueByPath over parts[k..]
RECURSIVE walkParts(_, _, _)
walkParts(current, parts, k) ==
    IF k > Len(parts) THEN current
    ELSE IF current.t \notin {"array", "object"} THEN Undefined
    ELSE walkParts(getProperty(current, parts[k]), parts, k + 1)

getValueByPath(obj, path) == walkParts(obj, split(path, "."), 1)

(***************************************************************************)
(* The chart assembler (parseHelmChart and its path helpers).              *)
(***************************************************************************)

\* String.prototype.toLowerCase(), lexeme by lexeme
lowerLexeme(l) ==
    CASE l = "Chart" -> "chart"
      [] l = "NOTES" -> "notes"
      [] l = "Values" -> "values"
      [] OTHER -> l

toLowerCase(s) == map(s, lowerLexeme)

\* the lexemes whose first character is a dot
DotLexemes == {".", ".yaml", ".yml", ".tpl", ".txt", ".md"}

startsWithDot(s) == Len(s) > 0 /\ s[1] \in DotLexemes

endsWith(s, l) == Len(s) > 0 /\ s[Len(s)] = l

\* String.prototype.includes(sub); no lexeme of the model ends with the first
\* lexeme of sub or starts with its last one without being it
includes(s, sub) ==
    \E i \in 1..Len(s) : i + Len(sub) - 1 <= Len(s) /\ SubSeq(s, i, i + Len(sub) - 1) = sub

ChartYamlName == <<"Chart", ".yaml">>
ChartYmlName == <<"Chart", ".yml">>

\* normalizePath once the path is split: normalized is the path with its leading
\* slashes removed and its backslashes replaced, parts its segments
normalizeParts(normalized, parts) ==
    LET chartIndicators == {ChartYamlName, ChartYmlName, <<"values", ".yaml">>,
                            <<"values", ".yml">>, <<"templates">>}
        hasChartIndicator == \E i \in 1..Len(parts) : parts[i] \in chartIndicators
        isChartYaml(i) == parts[i] = ChartYamlName \/ parts[i] = ChartYmlName
        \* findIndex: 0-based, -1 when none
        chartYamlIndex == IF \E i \in 1..Len(parts) : isChartYaml(i)
                          THEN Min({i \in 1..Len(parts) : isChartYaml(i)}) - 1
                          ELSE -1
    IN  IF Len(parts) > 1 /\ hasChartIndicator
        THEN IF chartYamlIndex > 0
             THEN join(SubSeq(parts, chartYamlIndex - 1 + 1 + 1, Len(parts)), "/")
             ELSE join(SubSeq(parts, 2, Len(parts)), "/")
        ELSE normalized

\* .replace(/\\/g, '/')
slashes(path) == map(path, LAMBDA l : IF l = "\\" THEN "/" ELSE l)

\* .replace(/^\/+/, '')
stripLeadingSlashes(path) == SubSeq(path, skip(path, 1, {"/"}), Len(path))

splitNormalized(normalized) == normalizeParts(normalized, split(normalized, "/"))

normalizePath(path) == splitNormalized(slashes(stripLeadingSlashes(path)))

getFileName(path) == LET parts == split(path, "/") IN parts[Len(parts)]

determineFileType(path) ==
    LET lowerPath == toLowerCase(path)
        fileName == toLowerCase(getFileName(path))
    IN  IF fileName = <<"chart", ".yaml">> \/ fileName = <<"chart", ".yml">> THEN "chart"
        ELSE IF fileName = <<"values", ".yaml">> \/ fileName = <<"values", ".yml">>
        THEN "values"
        ELSE IF endsWith(fileName, ".tpl") THEN "helper"
        ELSE IF fileName = <<"notes", ".txt">> THEN "notes"
        ELSE IF includes(lowerPath, <<"templates", "/">>)
                /\ (endsWith(fileName, ".yaml") \/ endsWith(fileName, ".yml"))
        THEN "template"
        ELSE "other"

isRelevantFile(path) ==
    LET lowerPath == toLowerCase(path)
        fileName == toLowerCase(getFileName(path))
    IN  IF fileName = <<"chart", ".yaml">> \/ fileName = <<"chart", ".yml">> THEN TRUE
        ELSE IF fileName = <<"values", ".yaml">> \/ fileName = <<"values", ".yml">> THEN TRUE
        ELSE IF includes(lowerPath, <<"templates", "/">>)
                /\ (endsWith(fileName, ".yaml") \/ endsWith(fileName, ".yml")
                    \/ endsWith(fileName, ".tpl") \/ fileName = <<"notes", ".txt">>)
        THEN TRUE
        ELSE IF startsWithDot(fileName) THEN FALSE
        ELSE IF includes(lowerPath, <<"charts", "/">>) THEN FALSE
        ELSE FALSE

HelmFile(path, text) ==
    [path |-> path, name |-> getFileName(path), type |-> determineFileType(path),
     content |-> text]

\* the stub parseChartYaml falls back to, in the place of the default chart
defaultChartYamlUnknown ==
    [name |-> <<"unknown">>, version |-> <<"0", ".", "0", ".", "0">>,
     apiVersion |-> <<"v", "2">>, description |-> Undefined, type |-> Undefined,
     appVersion |-> Undefined, dependencies |-> Undefined]

\* `if (!chartYaml) { chartYaml = {...} }`
defaultChartYaml ==
    [name |-> <<"unknown", "-", "chart">>, version |-> <<"0", ".", "0", ".", "0">>,
     apiVersion |-> <<"v", "2">>, description |-> Undefined, type |-> Undefined,
     appVersion |-> Undefined, dependencies |-> Undefined]

\* the locals of parseHelmChart before the loop
parseStart ==
    [threw |-> FALSE, helmFiles |-> <<>>, chartYaml |-> Null,
     values |-> [raw |-> JsObject(<<>>, <<>>), flatKeys |-> <<>>],
     allReferences |-> <<>>, allHelpers |-> <<>>]

\* the switch on the file type: what one file adds to the locals
parseFile(acc, file, chartResult) ==
    [threw |-> file.type = "chart" /\ chartResult.threw,
     helmFiles |-> Append(acc.helmFiles, file),
     chartYaml |-> IF file.type = "chart" /\ ~chartResult.threw
                   THEN chartResult.value ELSE acc.chartYaml,
     values |-> IF file.type = "values" THEN parseValuesYaml(file.content) ELSE acc.values,
     allReferences |-> IF file.type \in {"template", "helper", "notes"}
                       THEN acc.allReferences \o extractReferences(file.content, file.path)
                       ELSE acc.allReferences,
     allHelpers |-> IF file.type = "helper"
                    THEN acc.allHelpers \o extractHelperDefinitions(file.content, file.path)
                    ELSE acc.allHelpers]

\* one iteration of the loop over files.entries(), path being the normalized path
parseEntry(acc, path, text) ==
    IF ~isRelevantFile(path) THEN acc
    ELSE parseFile(acc, HelmFile(path, text),
                   IF determineFileType(path) = "chart" THEN parseChartYaml(text)
                   ELSE [threw |-> FALSE])

RECURSIVE parseEntries(_, _, _)
parseEntries(acc, entries, k) ==
    IF k > Len(entries) \/ acc.threw THEN acc
    ELSE parseEntries(parseEntry(acc, normalizePath(entries[k].path), entries[k].content),
                      entries, k + 1)

\* the HelmChart parseHelmChart returns
HelmChart(acc, chartYaml) ==
    [name |-> chartYaml.name,
     version |-> chartYaml.version,
     description |-> chartYaml.description,
     files |-> acc.helmFiles,
     values |-> acc.values,
     chartYaml |-> chartYaml,
     references |-> acc.allReferences,
     helpers |-> acc.allHelpers,
     dependencies |-> IF truthy(chartYaml.dependencies)
                      THEN chartYaml.dependencies.items ELSE <<>>]

\* parseHelmChart once the loop has ended with the locals acc
parseResult(acc) ==
    IF acc.threw THEN [threw |-> TRUE]
    ELSE [threw |-> FALSE,
          value |-> HelmChart(acc, IF acc.chartYaml = Null THEN defaultChartYaml
                                   ELSE acc.chartYaml)]

\* parseHelmChart(files): [threw |-> TRUE] when an exception leaves it, the
\* HelmChart otherwise
parseHelmChart(entries) == parseResult(parseEntries(parseStart, entries, 1))

(***************************************************************************)
(* graph-builder.ts: nodes and edges.                                      *)
(***************************************************************************)
Position(x, y) == [x |-> x, y |-> y]

createFileNode(path, name, fileType, x, y) ==
    [id |-> <<"file", ":">> \o path, type |-> "file", position |-> Position(x, y),
     data |-> [label |-> name, fileType |-> fileType, filePath |-> path]]

createValueNode(path, label, x, y) ==
    [id |-> <<"value", ":">> \o path, type |-> "value", position |-> Position(x, y),
     data |-> [label |-> label, valuePath |-> path]]

createHelperNode(name, x, y) ==
    [id |-> <<"helper", ":">> \o name, type |-> "helper", position |-> Position(x, y),
     data |-> [label |-> name, helperName |-> name]]

createReleaseNode(x, y) ==
    [id |-> <<"release", ":", "info">>, type |-> "release", position |-> Position(x, y),
     data |-> [label |-> <<".", "Release">>]]

\* Array.prototype.filter
filter(seq, Test(_)) == SelectSeq(seq, Test)

\* Array.prototype.find: the first element passing the test, Undefined when none does
find(seq, Test(_)) ==
    IF \E i \in 1..Len(seq) : Test(seq[i])
    THEN seq[Min({i \in 1..Len(seq) : Test(seq[i])})]
    ELSE Undefined

IsChartFile(f) == f.type = "chart"
IsValuesFile(f) == f.type = "values"
IsTemplateFile(f) == f.type \in {"template", "helper", "notes"}

\* createEdge without `if (!targetId) return null`
createEdgeUnchecked(ref, c) ==
    LET sourceId == <<"file", ":">> \o ref.source.file
        chartFile == find(c.files, IsChartFile)
        targetId ==
            CASE ref.type = "values" -> <<"value", ":">> \o ref.target.path
              [] ref.type \in {"include", "template"} -> <<"helper", ":">> \o ref.target.path
              [] ref.type = "chart" ->
                    IF chartFile # Undefined THEN <<"file", ":">> \o chartFile.path ELSE <<>>
              [] ref.type = "release" -> <<"release", ":", "info">>
              [] OTHER -> <<>>
    IN  IF ref.type \notin {"values", "include", "template", "chart", "release"} THEN Null
        ELSE [id |-> ref.id, source |-> sourceId, target |-> targetId,
              label |-> ref.expression, type |-> "smoothstep", animated |-> FALSE,
              data |-> [referenceType |-> ref.type, expression |-> ref.expression]]

\* createEdge(ref, chart): Null when the reference gets no edge
createEdge(ref, c) ==
    LET sourceId == <<"file", ":">> \o ref.source.file
        chartFile == find(c.files, IsChartFile)
        targetId ==
            CASE ref.type = "values" -> <<"value", ":">> \o ref.target.path
              [] ref.type \in {"include", "template"} -> <<"helper", ":">> \o ref.target.path
              [] ref.type = "chart" ->
                    IF chartFile # Undefined THEN <<"file", ":">> \o chartFile.path ELSE <<>>
              [] ref.type = "release" -> <<"release", ":", "info">>
              [] OTHER -> <<>>
    IN  IF ref.type \notin {"values", "include", "template", "chart", "release"} THEN Null
        ELSE IF targetId = <<>> THEN Null
        ELSE [id |-> ref.id, source |-> sourceId, target |-> targetId,
              label |-> ref.expression, type |-> "smoothstep", animated |-> FALSE,
              data |-> [referenceType |-> ref.type, expression |-> ref.expression]]

\* the distinct elements in the order of their last occurrence
lastOccurrences(seq) ==
    LET RECURSIVE from(_)
        from(k) == IF k > Len(seq) THEN <<>>
                   ELSE (IF \E j \in (k + 1)..Len(seq) : seq[j] = seq[k] THEN <<>>
                         ELSE <<seq[k]>>)
                        \o from(k + 1)
    IN  from(1)

\* Array.from(new Set(seq)): the distinct elements in the order of their first
\* occurrence
distinct(seq) ==
    LET RECURSIVE from(_)
        from(k) == IF k > Len(seq) THEN <<>>
                   ELSE (IF \E j \in 1..(k - 1) : seq[j] = seq[k] THEN <<>> ELSE <<seq[k]>>)
                        \o from(k + 1)
    IN  from(1)

\* the value paths of the values references, each once
getReferencedValuePaths(c) ==
    LET IsValues(ref) == ref.type = "values"
        TargetPath(ref) == ref.target.path
    IN  distinct(map(filter(c.references, IsValues), TargetPath))

\* `path.includes('.') ? path.split('.').pop() || path : path`
valueLabel(path) ==
    LET parts == split(path, ".")
    IN  IF "." \in Range(path) /\ parts[Len(parts)] # <<>> THEN parts[Len(parts)] ELSE path

\* the node list with the release node pushed before the chart file node
graphNodesReleaseFirst(c) ==
    LET fileNode(f) == createFileNode(f.path, f.name, f.type, 0, 0)
        metaNode(f, fileType) ==
            IF f # Undefined THEN <<createFileNode(f.path, f.name, fileType, 0, 0)>> ELSE <<>>
        valueNode(path) == createValueNode(path, valueLabel(path), 0, 0)
        helperNode(h) == createHelperNode(h.name, 0, 0)
    IN  map(filter(c.files, IsTemplateFile), fileNode)
        \o <<createReleaseNode(0, 0)>>
        \o metaNode(find(c.files, IsChartFile), "chart")
        \o metaNode(find(c.files, IsValuesFile), "values")
        \o map(getReferencedValuePaths(c), valueNode)
        \o map(c.helpers, helperNode)

\* the node list of buildGraphData before the layout
graphNodes(c) ==
    LET fileNode(f) == createFileNode(f.path, f.name, f.type, 0, 0)
        metaNode(f, fileType) ==
            IF f # Undefined THEN <<createFileNode(f.path, f.name, fileType, 0, 0)>> ELSE <<>>
        valueNode(path) == createValueNode(path, valueLabel(path), 0, 0)
        helperNode(h) == createHelperNode(h.name, 0, 0)
    IN  map(filter(c.files, IsTemplateFile), fileNode)
        \o metaNode(find(c.files, IsChartFile), "chart")
        \o <<createReleaseNode(0, 0)>>
        \o metaNode(find(c.files, IsValuesFile), "values")
        \o map(getReferencedValuePaths(c), valueNode)
        \o map(c.helpers, helperNode)

\* the edge list of buildGraphData
graphEdges(c) ==
    LET NotNull(e) == e # Null
        edgeOf(ref) == createEdge(ref, c)
    IN  filter(map(c.references, edgeOf), NotNull)

(***************************************************************************)
(* graph-builder.ts: the layout.  nodePositions is a function from node    *)
(* ids to positions; Map.set on an id already present overwrites it.       *)
(***************************************************************************)
verticalSpacing == 100
groupPadding == 50
Iterations == 5
ValueIndent == 30
ColumnCount == 4
ColumnX == <<0, 500, 1000, 1600>>

\* DEFAULT_LAYOUT.verticalSpacing * 0.7
valueSpacing == (verticalSpacing * 7) \div 10

Max(S) == CHOOSE m \in S : \A n \in S : m >= n

\* outgoingEdges.get(id) || [] and incomingEdges.get(id) || []
outgoingEdges(es, id) ==
    LET From(e) == e.source = id
    IN  map(filter(es, From), LAMBDA e : e.target)

incomingEdges(es, id) ==
    LET Into(e) == e.target = id
    IN  map(filter(es, Into), LAMBDA e : e.source)

\* a column choice that looks at the node type only
columnIndexByType(node) ==
    IF node.type = "file" THEN 0
    ELSE IF node.type \in {"chart", "release"} THEN 1
    ELSE IF node.type = "value" THEN 2
    ELSE IF node.type = "helper" THEN 3
    ELSE 0

\* the column a node is pushed to (0-based, as in the source)
columnIndex(node) ==
    IF node.type = "file"
    THEN IF node.data.fileType \in {"chart", "values"} THEN 1 ELSE 0
    ELSE IF node.type \in {"chart", "release"} THEN 1
    ELSE IF node.type = "value" THEN 2
    ELSE IF node.type = "helper" THEN 3
    ELSE 0

\* Array.prototype.sort with a comparator, which is stable: element i goes
\* behind the elements that sort before it and the equal ones that precede it
stableSort(seq, Before(_, _)) ==
    LET rank(i) == Cardinality({j \in 1..Len(seq) :
                       Before(seq[j], seq[i]) \/ (j < i /\ ~Before(seq[i], seq[j]))})
        ranks == array(Len(seq), rank)
    IN  array(Len(seq), LAMBDA r : seq[CHOOSE i \in 1..Len(seq) : ranks[i] = r - 1])

\* columnNodes after the first pass: the nodes of each column in input order,
\* then sorted by connection count, more connections first
sortedColumns(ns, es) ==
    LET connections(n) == Len(outgoingEdges(es, n.id)) + Len(incomingEdges(es, n.id))
        MoreConnections(a, b) == connections(b) - connections(a) < 0
        column(c) == LET InColumn(n) == columnIndex(n) = c - 1
                     IN  stableSort(filter(ns, InColumn), MoreConnections)
    IN  array(ColumnCount, column)

\* Map.set(id, position)
set(positions, id, position) == (id :> position) @@ positions

\* Map.set(ids[k], vals[k]) for k, k + 1, ...: a later entry overwrites an earlier one
RECURSIVE setAll(_, _, _, _)
setAll(positions, ids, vals, k) ==
    IF k > Len(ids) THEN positions
    ELSE setAll(set(positions, ids[k], vals[k]), ids, vals, k + 1)

\* the initial Y positions: row index times the vertical spacing
RECURSIVE initialPositions(_, _, _)
initialPositions(positions, columnNodes, colIndex) ==
    IF colIndex >= ColumnCount THEN positions
    ELSE initialPositions(
             setAll(positions, map(columnNodes[colIndex + 1], LAMBDA node : node.id),
                    array(Len(columnNodes[colIndex + 1]), LAMBDA k :
                        Position(ColumnX[colIndex + 1], (k - 1) * verticalSpacing)), 1),
             columnNodes, colIndex + 1)

\* `pos?.y || 0`
yOf(positions, id) == IF id \in DOMAIN positions THEN positions[id].y ELSE 0

\* a barycenter that is 0 for a node without neighbours
barycenterZeroIfAlone(node, positions, es) ==
    LET connectedNodes == incomingEdges(es, node.id) \o outgoingEdges(es, node.id)
        RECURSIVE sum(_)
        sum(k) == IF k > Len(connectedNodes) THEN 0
                  ELSE yOf(positions, connectedNodes[k]) + sum(k + 1)
    IN  IF Len(connectedNodes) = 0 THEN [infinite |-> FALSE, sum |-> 0, count |-> 1]
        ELSE [infinite |-> FALSE, sum |-> sum(1), count |-> Len(connectedNodes)]

\* the barycenter of a node: Infinity without neighbours, else sum / count
barycenter(node, positions, es) ==
    LET connectedNodes == incomingEdges(es, node.id) \o outgoingEdges(es, node.id)
        RECURSIVE sum(_)
        sum(k) == IF k > Len(connectedNodes) THEN 0
                  ELSE yOf(positions, connectedNodes[k]) + sum(k + 1)
    IN  IF Len(connectedNodes) = 0 THEN [infinite |-> TRUE, sum |-> 0, count |-> 1]
        ELSE [infinite |-> FALSE, sum |-> sum(1), count |-> Len(connectedNodes)]

\* `a.barycenter - b.barycenter < 0`; Infinity - Infinity is NaN, which sorts as equal
barycenterBefore(a, b) ==
    IF a.infinite THEN FALSE
    ELSE IF b.infinite THEN TRUE
    ELSE a.sum * b.count < b.sum * a.count

\* the second half of optimizeColumnOrder: the sorted nodes get the column's x
\* and their row
placeSorted(positions, sorted, x) ==
    setAll(positions, map(sorted, LAMBDA b : b.node.id),
           array(Len(sorted), LAMBDA k : Position(x, (k - 1) * verticalSpacing)), 1)

optimizeColumnOrder(col, positions, es) ==
    LET withBarycenter(node) == [node |-> node, barycenter |-> barycenter(node, positions, es)]
        Before(a, b) == barycenterBefore(a.barycenter, b.barycenter)
    IN  placeSorted(positions, stableSort(map(col, withBarycenter), Before),
                    IF Len(col) > 0 THEN positions[col[1].id].x ELSE 0)

\* for (colIndex = 1; colIndex < columnNodes.length; colIndex++), the loop
\* being at loop.colIndex with nodePositions = loop.positions
RECURSIVE leftToRight(_, _, _)
leftToRight(loop, columnNodes, es) ==
    IF loop.colIndex >= ColumnCount THEN loop.positions
    ELSE leftToRight(
             [colIndex |-> loop.colIndex + 1,
              positions |-> optimizeColumnOrder(columnNodes[loop.colIndex + 1],
                                                loop.positions, es)],
             columnNodes, es)

\* for (colIndex = columnNodes.length - 2; colIndex >= 0; colIndex--)
RECURSIVE rightToLeft(_, _, _)
rightToLeft(loop, columnNodes, es) ==
    IF loop.colIndex < 0 THEN loop.positions
    ELSE rightToLeft(
             [colIndex |-> loop.colIndex - 1,
              positions |-> optimizeColumnOrder(columnNodes[loop.colIndex + 1],
                                                loop.positions, es)],
             columnNodes, es)

\* one iteration of the refinement: left to right, then right to left
sweep(positions, columnNodes, es) ==
    rightToLeft([colIndex |-> ColumnCount - 2,
                 positions |-> leftToRight([colIndex |-> 1, positions |-> positions],
                                           columnNodes, es)],
                columnNodes, es)

\* for (iteration = 0; iteration < 5; iteration++)
RECURSIVE refine(_, _, _)
refine(loop, columnNodes, es) ==
    IF loop.iteration >= Iterations THEN loop.positions
    ELSE refine([iteration |-> loop.iteration + 1,
                 positions |-> sweep(loop.positions, columnNodes, es)],
                columnNodes, es)

\* String.prototype.localeCompare on the value paths of the model, which are
\* made of ".", "[", "]", digits and lower-case letters: punctuation sorts
\* before digits and digits before letters
collationRank(l) ==
    CASE l = "." -> 1 [] l = "[" -> 2 [] l = "]" -> 3
      [] l = "0" -> 10 [] l = "1" -> 11 [] l = "2" -> 12 [] l = "3" -> 13 [] l = "4" -> 14
      [] l = "5" -> 15 [] l = "6" -> 16 [] l = "7" -> 17 [] l = "8" -> 18 [] l = "9" -> 19
      [] l = "a" -> 20 [] l = "b" -> 21 [] l = "g" -> 22 [] l = "h" -> 23
      [] OTHER -> 30

\* a.localeCompare(b) < 0
RECURSIVE localeBefore(_, _)
localeBefore(a, b) ==
    IF Len(b) = 0 THEN FALSE
    ELSE IF Len(a) = 0 THEN TRUE
    ELSE IF collationRank(a[1]) # collationRank(b[1])
    THEN collationRank(a[1]) < collationRank(b[1])
    ELSE localeBefore(Tail(a), Tail(b))

\* `path.split('.')[0] || 'other'`
topLevel(node) ==
    LET first == split(node.data.valuePath, ".")[1]
    IN  IF first = <<>> THEN <<"other">> ELSE first

groupValueNodesByPrefix(ns) ==
    LET \* the entries of the Map, in insertion order
        entry(key) == LET InGroup(m) == topLevel(m) = key
                      IN  [key |-> key, group |-> filter(ns, InGroup)]
        KeyBefore(a, b) == localeBefore(a.key, b.key)
        Group(e) == e.group
    IN  map(stableSort(map(distinct(map(ns, topLevel)), entry), KeyBefore), Group)

\* a sort of the group by path alone
sortGroupByPath(group) ==
    LET Before(a, b) == localeBefore(a.data.valuePath, b.data.valuePath)
    IN  stableSort(group, Before)

\* the sort inside valueGroups.forEach: by path depth, then alphabetically
sortGroup(group) ==
    LET depth(n) == Len(split(n.data.valuePath, "."))
        Before(a, b) == IF depth(a) # depth(b) THEN depth(a) - depth(b) < 0
                        ELSE localeBefore(a.data.valuePath, b.data.valuePath)
    IN  stableSort(group, Before)

\* group.forEach((node, idx) => ...) from index idx on
RECURSIVE placeGroup(_, _, _, _)
placeGroup(positions, group, currentY, idx) ==
    IF idx >= Len(group) THEN positions
    ELSE LET node == group[idx + 1]
             pos == positions[node.id]
             indent == IF Len(split(node.data.valuePath, ".")) > 1 THEN ValueIndent ELSE 0
         IN  placeGroup(set(positions, node.id,
                            Position(pos.x + indent, currentY + idx * valueSpacing)),
                        group, currentY, idx + 1)

\* the groups placed one over the other, each from y = 0
placeGroupsFromZero(positions, valueGroups, currentY, g) ==
    LET RECURSIVE from(_, _)
        from(placed, k) ==
            IF k > Len(valueGroups) THEN placed
            ELSE from(placeGroup(placed, sortGroup(valueGroups[k]), currentY, 0), k + 1)
    IN  from(positions, g)

\* valueGroups.forEach((group) => ...) from group g on
RECURSIVE placeGroups(_, _, _, _)
placeGroups(positions, valueGroups, currentY, g) ==
    IF g > Len(valueGroups) THEN positions
    ELSE LET group == sortGroup(valueGroups[g])
         IN  placeGroups(placeGroup(positions, group, currentY, 0), valueGroups,
                         currentY + Len(group) * valueSpacing + groupPadding, g + 1)

groupValues(positions, columnNodes) ==
    LET valueNodes == columnNodes[3]
    IN  IF Len(valueNodes) > 0
        THEN placeGroups(positions, groupValueNodesByPrefix(valueNodes), 0, 1)
        ELSE positions

columnMinY(col, positions) == Min({positions[col[k].id].y : k \in 1..Len(col)})
columnMaxY(col, positions) == Max({positions[col[k].id].y : k \in 1..Len(col)})

\* col.forEach(node => set(node.id, { x: pos.x, y: pos.y + offset })) from node k on
RECURSIVE shiftColumn(_, _, _, _)
shiftColumn(positions, col, offset, k) ==
    IF k > Len(col) THEN positions
    ELSE LET pos == positions[col[k].id]
         IN  shiftColumn(set(positions, col[k].id, Position(pos.x, pos.y + offset)),
                         col, offset, k + 1)

\* the second loop of centerColumnsVertically from column c on
RECURSIVE centerColumns(_, _, _, _)
centerColumns(positions, columnNodes, maxHeight, c) ==
    IF c > Len(columnNodes) THEN positions
    ELSE IF Len(columnNodes[c]) = 0
    THEN centerColumns(positions, columnNodes, maxHeight, c + 1)
    ELSE LET col == columnNodes[c]
             minY == columnMinY(col, positions)
             colHeight == columnMaxY(col, positions) - minY
             offset == (maxHeight - colHeight) \div 2 - minY
         IN  centerColumns(shiftColumn(positions, col, offset, 1), columnNodes,
                           maxHeight, c + 1)

centerColumnsVertically(columnNodes, positions) ==
    LET heights == {columnMaxY(columnNodes[c], positions) - columnMinY(columnNodes[c], positions) :
                        c \in {c \in 1..Len(columnNodes) : Len(columnNodes[c]) > 0}}
        maxHeight == Max(heights \cup {0})
    IN  centerColumns(positions, columnNodes, maxHeight, 1)

\* nodePositions when autoOrganizeLayout returns, columnNodes being the columns
\* after the first pass.  The Map is taken through the refinement, the
\* grouping and the centering one after the other; a Map without entries is
\* the Map of a graph without nodes, which no step changes
columnPositions(columnNodes, es) ==
    LET refined == refine([iteration |-> 0,
                           positions |-> initialPositions(<<>>, columnNodes, 0)],
                          columnNodes, es)
        grouped == groupValues(refined, columnNodes)
    IN  IF DOMAIN refined = {} THEN refined
        ELSE IF DOMAIN grouped = {} THEN grouped
        ELSE centerColumnsVertically(columnNodes, grouped)

layoutPositions(ns, es) == columnPositions(sortedColumns(ns, es), es)

\* the nodes with their positions, the last node first
applyPositionsReversed(ns, nodePositions) ==
    array(Len(ns), LAMBDA k :
        [ns[Len(ns) + 1 - k] EXCEPT !.position = nodePositions[ns[Len(ns) + 1 - k].id]])

\* nodes.map(node => ({ ...node, position: nodePositions.get(node.id) || node.position }))
applyPositions(ns, nodePositions) ==
    map(ns, LAMBDA node : [node EXCEPT !.position = nodePositions[node.id]])

\* a layout that moves each node by its computed position, from where it is
autoOrganizeLayoutRelative(ns, es) ==
    LET moved(node, by) ==
            [node EXCEPT !.position = Position(node.position.x + by.x, node.position.y + by.y)]
        movedBy(nodePositions) == map(ns, LAMBDA node : moved(node, nodePositions[node.id]))
    IN  movedBy(layoutPositions(ns, es))

autoOrganizeLayout(ns, es) == applyPositions(ns, layoutPositions(ns, es))

graphOf(ns, es) == [nodes |-> autoOrganizeLayout(ns, es), edges |-> es]

buildGraphData(c) == graphOf(graphNodes(c), graphEdges(c))

\* graph-builder.ts: the 1-hop filter.  The nodes of graphData whose id is in
\* connectedNodeIds = {fileNodeId} and the ends of connectedEdges.
filteredGraph(graphData, fileNodeId, connectedEdges) ==
    LET connectedNodeIds ==
            {fileNodeId} \cup {connectedEdges[e].source : e \in 1..Len(connectedEdges)}
                         \cup {connectedEdges[e].target : e \in 1..Len(connectedEdges)}
        has(node) == node.id \in connectedNodeIds
    IN  [nodes |-> filter(graphData.nodes, has), edges |-> connectedEdges]

\* a filter that keeps the edges that leave the file only
filterGraphBySource(graphData, filePath) ==
    LET fileNodeId == <<"file", ":">> \o filePath
        leaves(edge) == edge.source = fileNodeId
    IN  filteredGraph(graphData, fileNodeId, filter(graphData.edges, leaves))

filterGraphByFile(graphData, filePath) ==
    LET fileNodeId == <<"file", ":">> \o filePath
        touches(edge) == edge.source = fileNodeId \/ edge.target = fileNodeId
    IN  filteredGraph(graphData, fileNodeId, filter(graphData.edges, touches))

(***************************************************************************)
(* FileTree.tsx: buildFileTree.  A Map<string, FileTreeItem> is the list   *)
(* of its values in insertion order; every item is stored under its name.  *)
(* An item is a record; hasChildren tells whether its children field is    *)
(* set.                                                                    *)
(***************************************************************************)
FileItem(name, path, fileType) ==
    [name |-> name, path |-> path, type |-> "file", fileType |-> fileType,
     hasChildren |-> FALSE, children |-> <<>>]

FolderItem(name, path) ==
    [name |-> name, path |-> path, type |-> "folder", fileType |-> "",
     hasChildren |-> TRUE, children |-> <<>>]

\* Map.prototype.has, get and set
levelHas(level, name) == \E k \in 1..Len(level) : level[k].name = name
levelGet(level, name) == level[CHOOSE k \in 1..Len(level) : level[k].name = name]
levelSet(level, name, item) ==
    IF levelHas(level, name)
    THEN array(Len(level), LAMBDA k : IF level[k].name = name THEN item ELSE level[k])
    ELSE Append(level, item)

\* String.prototype.localeCompare on the lexemes of the file paths of the
\* model that can meet at one position: "_" sorts before ".", "." before
\* "/", punctuation before letters, and letters without regard to case
pathRank(l) ==
    CASE l = "_helpers" -> 1 [] l = "." -> 2 [] l = ".md" -> 3 [] l = ".tpl" -> 4
      [] l = ".txt" -> 5 [] l = ".yaml" -> 6 [] l = ".yml" -> 7 [] l = "/" -> 8
      [] l = "Chart" -> 10 [] l = "charts" -> 11 [] l = "deploy" -> 12
      [] l = "mychart" -> 13 [] l = "NOTES" -> 14 [] l = "README" -> 15
      [] l = "sub" -> 16 [] l = "templates" -> 17 [] l = "values" -> 18
      [] l = "x" -> 19
      [] OTHER -> 30

\* a.localeCompare(b) < 0 for two paths or two names
RECURSIVE pathBefore(_, _)
pathBefore(a, b) ==
    IF Len(b) = 0 THEN FALSE
    ELSE IF Len(a) = 0 THEN TRUE
    ELSE IF pathRank(a[1]) # pathRank(b[1]) THEN pathRank(a[1]) < pathRank(b[1])
    ELSE pathBefore(Tail(a), Tail(b))

\* new Map() filled by children.forEach(child => childMap.set(child.name, child))
RECURSIVE childMapOf(_, _, _)
childMapOf(childMap, children, k) ==
    IF k > Len(children) THEN childMap
    ELSE childMapOf(levelSet(childMap, children[k].name, children[k]), children, k + 1)

\* parts.forEach for one file, from the part at index on.  atRoot tells
\* whether currentLevel is the root Map; past the first part currentLevel is
\* childMap, a Map made afresh from the children of the folder, which the
\* folder does not hold: the folder holds the array that was made from
\* childMap before anything was set in it
RECURSIVE addParts(_, _, _, _, _, _)
addParts(root, atRoot, childMap, file, parts, index) ==
    IF index > Len(parts) THEN root
    ELSE LET part == parts[index]
             currentLevel == IF atRoot THEN root ELSE childMap
         IN  IF index = Len(parts)
             THEN IF atRoot THEN levelSet(root, part, FileItem(part, file.path, file.type))
                  ELSE root
             ELSE LET folder == IF levelHas(currentLevel, part) THEN levelGet(currentLevel, part)
                                ELSE FolderItem(part, join(SubSeq(parts, 1, index), "/"))
                      fresh == childMapOf(<<>>, folder.children, 1)
                      \* if (!folder.children) folder.children = [], and then
                      \* folder.children = Array.from(childMap.values())
                      held == [folder EXCEPT !.hasChildren = TRUE, !.children = fresh]
                  IN  addParts(IF atRoot THEN levelSet(root, part, held) ELSE root,
                               FALSE, fresh, file, parts, index + 1)

\* sortedFiles.forEach from the k-th file on
RECURSIVE addFiles(_, _, _)
addFiles(root, sortedFiles, k) ==
    IF k > Len(sortedFiles) THEN root
    ELSE addFiles(addParts(root, TRUE, <<>>, sortedFiles[k],
                           split(sortedFiles[k].path, "/"), 1),
                  sortedFiles, k + 1)

\* the comparison of the last sort: folders first, then by name
itemBefore(a, b) ==
    IF a.type # b.type THEN a.type = "folder" ELSE pathBefore(a.name, b.name)

\* buildFileTree(files)
buildFileTree(helmFiles) ==
    stableSort(addFiles(<<>>, stableSort(helmFiles, LAMBDA a, b : pathBefore(a.path, b.path)), 1),
               itemBefore)

\* the items renderTreeItem draws for a list of items when every folder is
\* expanded, in drawing order
RECURSIVE renderedItems(_)
renderedItems(items) ==
    IF Len(items) = 0 THEN <<>>
    ELSE <<items[1]>>
         \o (IF items[1].type = "folder" THEN renderedItems(items[1].children) ELSE <<>>)
         \o renderedItems(Tail(items))

(***************************************************************************)
(* App.tsx: the state of App is helmChart, selectedFile and isLoading.  A  *)
(* selectedFile is null or a string.                                       *)
(***************************************************************************)
AppState(c, s, l) == [helmChart |-> c, selectedFile |-> s, isLoading |-> l]

\* handleFilesDropped without its catch: the exception of parseHelmChart
\* leaves it before setIsLoading(false)
handleFilesDroppedNoCatch(app, m) ==
    LET loading == [app EXCEPT !.isLoading = TRUE]
        parsed == parseHelmChart(m)
    IN  IF parsed.threw THEN loading
        ELSE [loading EXCEPT !.helmChart = parsed.value, !.isLoading = FALSE]

\* handleFilesDropped(files): it has no await, so it runs in one piece
handleFilesDropped(app, m) ==
    LET loading == [app EXCEPT !.isLoading = TRUE]
        parsed == parseHelmChart(m)
        tried == IF parsed.threw THEN loading
                 ELSE [loading EXCEPT !.helmChart = parsed.value]
    IN  [tried EXCEPT !.isLoading = FALSE]

\* handleReset()
handleReset(app) == [app EXCEPT !.helmChart = Null, !.selectedFile = Null]

\* the onClick of a file item of the tree
onItemClick(app, item) ==
    LET isSelected == item.type = "file" /\ JsString(item.path) = app.selectedFile
    IN  [app EXCEPT !.selectedFile = IF isSelected THEN Null ELSE JsString(item.path)]

\* GraphView's onNodeClick(node)
onNodeClick(app, node) ==
    IF Len(node.id) >= 2 /\ SubSeq(node.id, 1, 2) = <<"file", ":">>
    THEN LET filePath == SubSeq(node.id, 3, Len(node.id))
         IN  [app EXCEPT !.selectedFile = IF JsString(filePath) = app.selectedFile
                                          THEN Null ELSE JsString(filePath)]
    ELSE app

\* GraphView's onPaneClick()
onPaneClick(app) == [app EXCEPT !.selectedFile = Null]

(***************************************************************************)
(* The inputs of the model.                                                *)
(***************************************************************************)

\* the texts made of at most n of the chunks
RECURSIVE Concatenations(_, _)
Concatenations(chunks, n) ==
    IF n = 0 THEN {<<>>}
    ELSE LET shorter == Concatenations(chunks, n - 1)
         IN  shorter \cup {t \o c : t \in shorter, c \in chunks}

TemplateChunks ==
    {<<".", "Values">>, <<".", "a">>, <<".", "b">>, <<"[", "0", "]">>, <<" ">>, <<"\n">>}

TemplateTexts == Concatenations(TemplateChunks, MaxTemplateChunks)

DefineH == <<"{{", "define", " ", "\"", "h", "\"", "}}">>
DefineG == <<"{{", "-", " ", "define", " ", "\"", "g", "\"", " ", "-", "}}">>
EndMarker == <<"{{", "end", "}}">>
EndTrimMarker == <<"{{", "-", " ", "end", " ", "-", "}}">>
IfMarker == <<"{{", "if", " ", ".", "a", "}}">>

HelperChunks == {DefineH, DefineG, EndMarker, EndTrimMarker, IfMarker, <<"a">>, <<"\n">>}

HelperTexts == Concatenations(HelperChunks, MaxHelperChunks)

HelperFilePath == <<"templates", "/", "_helpers", ".tpl">>
TemplateFilePath == <<"templates", "/", "deploy", ".yaml">>

\* configuration trees: a mapping whose values are at most two levels deep
Leaves == {JsNumber(<<"1">>), Null}
KeyLists == {<<>>, << <<"a">> >>, << <<"b">> >>, << <<"a">>, <<"b">> >>, << <<"b">>, <<"a">> >>}
ListsOf(S, n) == UNION {[1..k -> S] : k \in 0..n}
ArraysOf(S) == {JsArray(items) : items \in ListsOf(S, MaxArrayLen)}
ObjectsOf(S) == UNION {{JsObject(keys, vals) : vals \in [1..Len(keys) -> S]} : keys \in KeyLists}
ShallowTrees == Leaves \cup ArraysOf(Leaves) \cup ObjectsOf(Leaves)
Trees == ObjectsOf(ShallowTrees)

\* the files a drop can hold: a raw path and the text read from it
ChartDoc == <<"name", ":", " ", "mychart", "\n", "version", ":", " ", "1", ".", "0", ".", "0">>
SubChartDoc == <<"name", ":", " ", "sub">>
ValuesDoc == <<"a", ":", " ", "1">>
MalformedDoc == <<"name", ":", " ", "[">>
EmptyDoc == <<>>
TextValues == <<"{{", " ", ".", "Values", ".", "a", ".", "b", " ", "}}", "\n",
                "{{", " ", ".", "Values", ".", "b", " ", "}}">>
TextInclude == <<"{{", " ", "include", " ", "\"", "h", "\"", " ", ".", " ", "}}", " ",
                 "{{", " ", ".", "Chart", ".", "Name", " ", "}}">>
TextRelease == <<"{{", " ", ".", "Release", ".", "Name", " ", "}}", " ",
                 "{{", " ", ".", "Files", ".", "Get", " ", "\"", "a", "\"", " ", "}}">>
HelperOnce == <<"{{", "-", " ", "define", " ", "\"", "h", "\"", " ", "-", "}}",
                "{{", " ", ".", "Values", ".", "b", " ", "}}",
                "{{", "-", " ", "end", " ", "-", "}}">>
HelperTwice == <<"{{", "define", " ", "\"", "h", "\"", "}}", "a", "{{", "end", "}}", "\n",
                 "{{", "define", " ", "\"", "h", "\"", "}}", "b", "{{", "end", "}}">>

TextNested == <<"{{", " ", ".", "Values", ".", "a", ".", "h", " ", "}}", " ",
                "{{", " ", ".", "Values", ".", "b", " ", "}}", "\n",
                "{{", " ", ".", "Values", ".", "a", ".", "b", ".", "b", " ", "}}", " ",
                "{{", " ", ".", "Values", ".", "a", " ", "}}", "\n",
                "{{", " ", ".", "Values", ".", "a", ".", "b", " ", "}}">>
HelperBoth == DefineG \o <<"a">> \o EndTrimMarker \o <<"\n">> \o DefineH \o <<"a">> \o EndMarker

Entry(path, text) == [path |-> path, content |-> text]

RootChartYaml == <<"mychart", "/", "Chart", ".yaml">>
RootChartYml == <<"mychart", "/", "Chart", ".yml">>
SubChartYaml == <<"mychart", "/", "charts", "/", "sub", "/", "Chart", ".yaml">>
RootValuesYaml == <<"mychart", "/", "values", ".yaml">>
DeployYaml == <<"mychart", "/", "templates", "/", "deploy", ".yaml">>
DeployYamlBackslash == <<"mychart", "\\", "templates", "\\", "deploy", ".yaml">>
DeployYamlSlash == <<"/", "mychart", "/", "templates", "/", "deploy", ".yaml">>
HelpersTpl == <<"mychart", "/", "templates", "/", "_helpers", ".tpl">>
NotesTxt == <<"mychart", "/", "templates", "/", "NOTES", ".txt">>
HiddenYaml == <<"mychart", "/", "templates", "/", ".", "x", ".yaml">>
SubChartTemplate == <<"mychart", "/", "charts", "/", "sub", "/", "templates", "/", "deploy", ".yaml">>
ReadmeMd == <<"mychart", "/", "README", ".md">>

InputFiles ==
    {Entry(RootChartYaml, t) : t \in {ChartDoc, MalformedDoc, EmptyDoc}}
    \cup {Entry(SubChartYaml, SubChartDoc), Entry(RootChartYml, SubChartDoc)}
    \cup {Entry(RootValuesYaml, t) : t \in {ValuesDoc, MalformedDoc}}
    \cup {Entry(DeployYaml, t) : t \in {TextValues, TextInclude, TextRelease, TextNested}}
    \cup {Entry(DeployYamlBackslash, TextValues), Entry(DeployYamlSlash, TextValues)}
    \cup {Entry(HelpersTpl, t) : t \in {HelperOnce, HelperTwice, HelperBoth}}
    \cup {Entry(NotesTxt, TextRelease), Entry(HiddenYaml, TextValues),
          Entry(SubChartTemplate, TextInclude), Entry(ReadmeMd, TextValues)}

\* the files Maps the reads of a drop on the App give; each holds a
\* Chart.yaml, the third one an empty one
AppDrops ==
    {<<Entry(RootChartYaml, ChartDoc), Entry(DeployYaml, TextValues)>>,
     <<Entry(RootChartYaml, ChartDoc), Entry(RootValuesYaml, ValuesDoc)>>,
     <<Entry(RootChartYaml, EmptyDoc), Entry(DeployYaml, TextValues)>>,
     <<Entry(RootChartYaml, ChartDoc), Entry(HelpersTpl, HelperOnce), Entry(DeployYaml, TextInclude)>>}

\* the nodes and edges a layout can be asked for
\* the file paths a graph is filtered by: those of the input files, as the
\* chart holds them, and the raw path of one of them, which no chart holds
FilterPaths == {normalizePath(f.path) : f \in InputFiles} \cup {DeployYaml}

FileA == <<"templates", "/", "a", ".yaml">>
FileB == <<"templates", "/", "b", ".yaml">>

NodePool ==
    {createFileNode(FileA, <<"a", ".yaml">>, "template", 0, 0),
     createFileNode(FileB, <<"b", ".yaml">>, "template", 0, 0),
     createReleaseNode(0, 0),
     createValueNode(<<"a">>, <<"a">>, 0, 0),
     createValueNode(<<"a", ".", "b">>, <<"b">>, 0, 0),
     createValueNode(<<"b">>, <<"b">>, 0, 0),
     createHelperNode(<<"h">>, 0, 0)}

Edge(source, target) ==
    [id |-> source \o <<":">> \o target, source |-> source, target |-> target,
     label |-> <<>>, type |-> "smoothstep", animated |-> FALSE,
     data |-> [referenceType |-> "values", expression |-> <<>>]]

\* the edges a graph can hold, in the order the edge list holds them; the
\* last one is a second reference of templates/a.yaml to the value b
EdgePool ==
    <<Edge(<<"file", ":">> \o FileA, <<"value", ":", "a", ".", "b">>),
      Edge(<<"file", ":">> \o FileA, <<"value", ":", "b">>),
      Edge(<<"file", ":">> \o FileA, <<"helper", ":", "h">>),
      Edge(<<"file", ":">> \o FileB, <<"value", ":", "a", ".", "b">>),
      Edge(<<"file", ":">> \o FileB, <<"value", ":", "b">>),
      [Edge(<<"file", ":">> \o FileA, <<"value", ":", "b">>) EXCEPT !.id = @ \o <<":", "2">>]>>

\* the sub-lists of at most n elements of a list
SubLists(list, n) ==
    LET nth(S, k) == CHOOSE i \in S : Cardinality({j \in S : j < i}) = k - 1
    IN  {array(Cardinality(S), LAMBDA k : list[nth(S, k)]) :
            S \in {T \in SUBSET (1..Len(list)) : Cardinality(T) <= n}}

IsInjective(seq) == \A i, j \in 1..Len(seq) : seq[i] = seq[j] => i = j

NodeLists == {ns \in ListsOf(NodePool, MaxNodes) : IsInjective(ns)}
EdgeLists == SubLists(EdgePool, MaxEdges)

(***************************************************************************)
(* DropZone.tsx: the drop handler.  handleDrop and readDirectoryEntry are  *)
(* async functions; each awaits one file read or one directory listing at  *)
(* a time.  A frame is a call that is awaiting: the entries it has still   *)
(* to go through (rest), its files Map, and for a directory the children   *)
(* its reader has not listed yet (unlisted).  The first frame is           *)
(* handleDrop's, the last one the call that is running.                    *)
(***************************************************************************)
FileEntry(fullPath, content) ==
    [isFile |-> TRUE, isDirectory |-> FALSE, fullPath |-> fullPath, content |-> content]
DirectoryEntry(fullPath, children) ==
    [isFile |-> FALSE, isDirectory |-> TRUE, fullPath |-> fullPath, children |-> children]
\* item.webkitGetAsEntry() === null
NoEntry == [isFile |-> FALSE, isDirectory |-> FALSE]

NoPending == [op |-> "none"]
\* setError(null): no message is shown
NoError == ""
NoFilesMessage == "No files detected. Please drop a Helm chart folder."
NoChartMessage == "No Chart.yaml found. Please drop a valid Helm chart folder."

Frame(rest, unlisted, dir) == [rest |-> rest, files |-> <<>>, unlisted |-> unlisted, dir |-> dir]

\* Map.prototype.set: a key that is present keeps its place
mapSet(m, path, content) ==
    IF \E k \in 1..Len(m) : m[k].path = path
    THEN array(Len(m), LAMBDA k : IF m[k].path = path THEN Entry(path, content) ELSE m[k])
    ELSE Append(m, Entry(path, content))

\* subFiles.forEach((content, path) => files.set(path, content)) from entry k on
RECURSIVE mapSetAll(_, _, _)
mapSetAll(m, subFiles, k) ==
    IF k > Len(subFiles) THEN m
    ELSE mapSetAll(mapSet(m, subFiles[k].path, subFiles[k].content), subFiles, k + 1)

\* String.prototype.endsWith(suffix) for a suffix of several lexemes; no
\* lexeme of a path ends with the first lexeme of the suffix without being it
endsWithAll(s, suffix) ==
    Len(s) >= Len(suffix) /\ SubSeq(s, Len(s) - Len(suffix) + 1, Len(s)) = suffix

\* Array.from(files.keys()).some(path => ...)
hasChartYaml(m) ==
    \E k \in 1..Len(m) :
        \/ endsWithAll(toLowerCase(m[k].path), <<"chart", ".yaml">>)
        \/ endsWithAll(toLowerCase(m[k].path), <<"chart", ".yml">>)

\* the entries of a dropped chart folder
DropRoot == <<"/", "mychart">>
DropChartFile == FileEntry(DropRoot \o <<"/", "Chart", ".yaml">>, ChartDoc)
DropValuesFile == FileEntry(DropRoot \o <<"/", "values", ".yaml">>, ValuesDoc)
\* a file named myChart.yaml
DropOtherFile == FileEntry(DropRoot \o <<"/", "my", "Chart", ".yaml">>, ValuesDoc)
DropTemplates ==
    DirectoryEntry(DropRoot \o <<"/", "templates">>,
                   <<FileEntry(DropRoot \o <<"/", "templates", "/", "deploy", ".yaml">>, TextValues)>>)
DropFolders ==
    {DirectoryEntry(DropRoot, children) :
        children \in SubLists(<<DropChartFile, DropValuesFile, DropOtherFile, DropTemplates>>,
                              MaxDirEntries)}
\* what one item of a drop can be: a chart folder, a loose file, something
\* that is no file system entry
DropItems == DropFolders \cup {FileEntry(<<"/", "Chart", ".yml">>, ChartDoc), NoEntry}
Drops == {d \in ListsOf(DropItems, MaxDropItems) : IsInjective(d)}

(***************************************************************************)
(* The state machines.  Idle is the value of the variables a run does not  *)
(* use.                                                                    *)
(***************************************************************************)
Idle == <<>>

chartVars == <<files, chart, graph>>
referenceVars == <<templateText, references>>
helperVars == <<helperText, helpers>>
valueVars == <<raw, flatKeys, lookups>>
layoutVars == <<nodes, edges, layout1, layout2>>
filterVars == <<filterPath, filtered>>
dropVars == <<dropped, frames, pending, calls, delivered, error>>
appVars == <<helmChart, selectedFile, isLoading, inFlight, fileTree>>
sweepVars == <<sweepColumns, sweepPositions, sweepIteration, sweepColIndex, sweepSorted>>

\* --- a drop is collected, parsed and turned into a graph
AddFile(f) ==
    /\ pc = "collect"
    /\ Len(files) < MaxFiles
    /\ \A i \in 1..Len(files) : files[i].path # f.path
    /\ files' = Append(files, f)
    /\ UNCHANGED <<chart, graph, pc, referenceVars, helperVars, valueVars, layoutVars, filterVars, dropVars, sweepVars, appVars>>

ParseHelmChart ==
    /\ pc = "collect"
    /\ chart' = parseHelmChart(files)
    /\ pc' = IF chart'.threw THEN "threw" ELSE "parsed"
    /\ UNCHANGED <<files, graph, referenceVars, helperVars, valueVars, layoutVars, filterVars, dropVars, sweepVars, appVars>>

BuildGraphData ==
    /\ pc = "parsed"
    /\ graph' = buildGraphData(chart.value)
    /\ pc' = "built"
    /\ UNCHANGED <<files, chart, referenceVars, helperVars, valueVars, layoutVars, filterVars, dropVars, sweepVars, appVars>>

FilterGraphByFile(p) ==
    /\ pc = "built"
    /\ filterPath' = p
    /\ filtered' = filterGraphByFile(graph, p)
    /\ pc' = "filtered"
    /\ UNCHANGED <<files, chart, graph, referenceVars, helperVars, valueVars, layoutVars, dropVars, sweepVars, appVars>>

ChartInit ==
    /\ helmChart = Idle /\ selectedFile = Idle /\ isLoading = Idle /\ inFlight = Idle /\ fileTree = Idle
    /\ sweepColumns = Idle /\ sweepPositions = Idle /\ sweepIteration = Idle /\ sweepColIndex = Idle /\ sweepSorted = Idle
    /\ dropped = Idle /\ frames = Idle /\ pending = Idle /\ calls = Idle
    /\ delivered = Idle /\ error = Idle
    /\ filterPath = Idle /\ filtered = Idle
    /\ files = <<>> /\ chart = Idle /\ graph = Idle /\ pc = "collect"
    /\ templateText = Idle /\ references = Idle /\ helperText = Idle /\ helpers = Idle
    /\ raw = Idle /\ flatKeys = Idle /\ lookups = Idle
    /\ nodes = Idle /\ edges = Idle /\ layout1 = Idle /\ layout2 = Idle

ChartNext ==
    \/ \E f \in InputFiles : AddFile(f)
    \/ ParseHelmChart
    \/ BuildGraphData
    \/ \E p \in FilterPaths : FilterGraphByFile(p)

SpecChart == ChartInit /\ [][ChartNext]_vars

\* --- extractReferences on a template text
ExtractReferences ==
    /\ pc = "text"
    /\ references' = extractReferences(templateText, TemplateFilePath)
    /\ pc' = "extracted"
    /\ UNCHANGED <<templateText, chartVars, helperVars, valueVars, layoutVars, filterVars, dropVars, sweepVars, appVars>>

ReferencesInit ==
    /\ helmChart = Idle /\ selectedFile = Idle /\ isLoading = Idle /\ inFlight = Idle /\ fileTree = Idle
    /\ sweepColumns = Idle /\ sweepPositions = Idle /\ sweepIteration = Idle /\ sweepColIndex = Idle /\ sweepSorted = Idle
    /\ dropped = Idle /\ frames = Idle /\ pending = Idle /\ calls = Idle
    /\ delivered = Idle /\ error = Idle
    /\ filterPath = Idle /\ filtered = Idle
    /\ templateText \in TemplateTexts /\ references = Idle /\ pc = "text"
    /\ files = Idle /\ chart = Idle /\ graph = Idle /\ helperText = Idle /\ helpers = Idle
    /\ raw = Idle /\ flatKeys = Idle /\ lookups = Idle
    /\ nodes = Idle /\ edges = Idle /\ layout1 = Idle /\ layout2 = Idle

SpecReferences == ReferencesInit /\ [][ExtractReferences]_vars

\* --- extractHelperDefinitions on a helper file's text
ExtractHelperDefinitions ==
    /\ pc = "text"
    /\ helpers' = extractHelperDefinitions(helperText, HelperFilePath)
    /\ pc' = "extracted"
    /\ UNCHANGED <<helperText, chartVars, referenceVars, valueVars, layoutVars, filterVars, dropVars, sweepVars, appVars>>

HelpersInit ==
    /\ helmChart = Idle /\ selectedFile = Idle /\ isLoading = Idle /\ inFlight = Idle /\ fileTree = Idle
    /\ sweepColumns = Idle /\ sweepPositions = Idle /\ sweepIteration = Idle /\ sweepColIndex = Idle /\ sweepSorted = Idle
    /\ dropped = Idle /\ frames = Idle /\ pending = Idle /\ calls = Idle
    /\ delivered = Idle /\ error = Idle
    /\ filterPath = Idle /\ filtered = Idle
    /\ helperText \in HelperTexts /\ helpers = Idle /\ pc = "text"
    /\ files = Idle /\ chart = Idle /\ graph = Idle /\ templateText = Idle /\ references = Idle
    /\ raw = Idle /\ flatKeys = Idle /\ lookups = Idle
    /\ nodes = Idle /\ edges = Idle /\ layout1 = Idle /\ layout2 = Idle

SpecHelpers == HelpersInit /\ [][ExtractHelperDefinitions]_vars

\* --- flattenValues on a configuration tree, then getValueByPath on every flat key
FlattenValues ==
    /\ pc = "tree"
    /\ flatKeys' = flattenValues(raw, <<>>)
    /\ pc' = "flattened"
    /\ UNCHANGED <<raw, lookups, chartVars, referenceVars, helperVars, layoutVars, filterVars, dropVars, sweepVars, appVars>>

GetValueByPath ==
    /\ pc = "flattened"
    /\ lookups' = [i \in 1..Len(flatKeys) |-> getValueByPath(raw, flatKeys[i].path)]
    /\ pc' = "looked up"
    /\ UNCHANGED <<raw, flatKeys, chartVars, referenceVars, helperVars, layoutVars, filterVars, dropVars, sweepVars, appVars>>

ValuesInit ==
    /\ helmChart = Idle /\ selectedFile = Idle /\ isLoading = Idle /\ inFlight = Idle /\ fileTree = Idle
    /\ sweepColumns = Idle /\ sweepPositions = Idle /\ sweepIteration = Idle /\ sweepColIndex = Idle /\ sweepSorted = Idle
    /\ dropped = Idle /\ frames = Idle /\ pending = Idle /\ calls = Idle
    /\ delivered = Idle /\ error = Idle
    /\ filterPath = Idle /\ filtered = Idle
    /\ raw \in Trees /\ flatKeys = Idle /\ lookups = Idle /\ pc = "tree"
    /\ files = Idle /\ chart = Idle /\ graph = Idle /\ templateText = Idle /\ references = Idle
    /\ helperText = Idle /\ helpers = Idle
    /\ nodes = Idle /\ edges = Idle /\ layout1 = Idle /\ layout2 = Idle

ValuesNext == FlattenValues \/ GetValueByPath

SpecValues == ValuesInit /\ [][ValuesNext]_vars

\* --- autoOrganizeLayout on a graph, then again on its own output
AutoOrganizeLayout ==
    /\ pc = "graph"
    /\ layout1' = autoOrganizeLayout(nodes, edges)
    /\ pc' = "laid out"
    /\ UNCHANGED <<nodes, edges, layout2, chartVars, referenceVars, helperVars, valueVars, filterVars, dropVars, sweepVars, appVars>>

AutoOrganizeLayoutAgain ==
    /\ pc = "laid out"
    /\ layout2' = autoOrganizeLayout(layout1, edges)
    /\ pc' = "laid out again"
    /\ UNCHANGED <<nodes, edges, layout1, chartVars, referenceVars, helperVars, valueVars, filterVars, dropVars, sweepVars, appVars>>

LayoutInit ==
    /\ helmChart = Idle /\ selectedFile = Idle /\ isLoading = Idle /\ inFlight = Idle /\ fileTree = Idle
    /\ sweepColumns = Idle /\ sweepPositions = Idle /\ sweepIteration = Idle /\ sweepColIndex = Idle /\ sweepSorted = Idle
    /\ dropped = Idle /\ frames = Idle /\ pending = Idle /\ calls = Idle
    /\ delivered = Idle /\ error = Idle
    /\ filterPath = Idle /\ filtered = Idle
    /\ nodes \in NodeLists /\ edges \in EdgeLists
    /\ layout1 = Idle /\ layout2 = Idle /\ pc = "graph"
    /\ files = Idle /\ chart = Idle /\ graph = Idle /\ templateText = Idle /\ references = Idle
    /\ helperText = Idle /\ helpers = Idle /\ raw = Idle /\ flatKeys = Idle /\ lookups = Idle

LayoutNext == AutoOrganizeLayout \/ AutoOrganizeLayoutAgain

SpecLayout == LayoutInit /\ [][LayoutNext]_vars

\* --- the refinement loop of autoOrganizeLayout, one call of
\* optimizeColumnOrder at a time
StartRefinement ==
    /\ pc = "graph"
    /\ sweepColumns' = sortedColumns(nodes, edges)
    /\ sweepPositions' = initialPositions(<<>>, sweepColumns', 0)
    /\ sweepIteration' = 0
    /\ sweepColIndex' = 1
    /\ sweepSorted' = <<>>
    /\ pc' = "left to right"
    /\ UNCHANGED <<layoutVars, chartVars, referenceVars, helperVars, valueVars, filterVars, dropVars, appVars>>

\* the body of `for (colIndex = 1; colIndex < columnNodes.length; colIndex++)`
SortLeftToRight ==
    /\ pc = "left to right"
    /\ sweepColIndex < ColumnCount
    /\ sweepPositions' = optimizeColumnOrder(sweepColumns[sweepColIndex + 1], sweepPositions, edges)
    /\ sweepSorted' = Append(sweepSorted, sweepColIndex)
    /\ sweepColIndex' = sweepColIndex + 1
    /\ UNCHANGED <<sweepColumns, sweepIteration, pc, layoutVars, chartVars, referenceVars,
                   helperVars, valueVars, filterVars, dropVars, appVars>>

\* the first loop ends, `colIndex = columnNodes.length - 2`
TurnBack ==
    /\ pc = "left to right"
    /\ sweepColIndex >= ColumnCount
    /\ sweepColIndex' = ColumnCount - 2
    /\ pc' = "right to left"
    /\ UNCHANGED <<sweepColumns, sweepPositions, sweepIteration, sweepSorted, layoutVars,
                   chartVars, referenceVars, helperVars, valueVars, filterVars, dropVars, appVars>>

\* the body of `for (...; colIndex >= 0; colIndex--)`
SortRightToLeft ==
    /\ pc = "right to left"
    /\ sweepColIndex >= 0
    /\ sweepPositions' = optimizeColumnOrder(sweepColumns[sweepColIndex + 1], sweepPositions, edges)
    /\ sweepSorted' = Append(sweepSorted, sweepColIndex)
    /\ sweepColIndex' = sweepColIndex - 1
    /\ UNCHANGED <<sweepColumns, sweepIteration, pc, layoutVars, chartVars, referenceVars,
                   helperVars, valueVars, filterVars, dropVars, appVars>>

\* the second loop ends, `iteration++` and `iteration < 5`
NextIteration ==
    /\ pc = "right to left"
    /\ sweepColIndex < 0
    /\ sweepIteration' = sweepIteration + 1
    /\ IF sweepIteration' < Iterations
       THEN sweepColIndex' = 1 /\ pc' = "left to right"
       ELSE sweepColIndex' = sweepColIndex /\ pc' = "refined"
    /\ UNCHANGED <<sweepColumns, sweepPositions, sweepSorted, layoutVars,
                   chartVars, referenceVars, helperVars, valueVars, filterVars, dropVars, appVars>>

\* what follows the refinement: value grouping, centering, the returned nodes
FinishLayout ==
    /\ pc = "refined"
    /\ layout1' = applyPositions(nodes, centerColumnsVertically(
                      sweepColumns, groupValues(sweepPositions, sweepColumns)))
    /\ pc' = "laid out"
    /\ UNCHANGED <<nodes, edges, layout2, sweepVars, chartVars, referenceVars, helperVars,
                   valueVars, filterVars, dropVars, appVars>>

SweepInit ==
    /\ helmChart = Idle /\ selectedFile = Idle /\ isLoading = Idle /\ inFlight = Idle /\ fileTree = Idle
    /\ dropped = Idle /\ frames = Idle /\ pending = Idle /\ calls = Idle
    /\ delivered = Idle /\ error = Idle
    /\ filterPath = Idle /\ filtered = Idle
    /\ sweepColumns = Idle /\ sweepPositions = Idle /\ sweepIteration = Idle
    /\ sweepColIndex = Idle /\ sweepSorted = Idle
    /\ nodes \in NodeLists /\ edges \in EdgeLists
    /\ layout1 = Idle /\ layout2 = Idle /\ pc = "graph"
    /\ files = Idle /\ chart = Idle /\ graph = Idle /\ templateText = Idle /\ references = Idle
    /\ helperText = Idle /\ helpers = Idle /\ raw = Idle /\ flatKeys = Idle /\ lookups = Idle

SweepNext ==
    \/ StartRefinement
    \/ SortLeftToRight
    \/ TurnBack
    \/ SortRightToLeft
    \/ NextIteration
    \/ FinishLayout

SpecSweep == SweepInit /\ [][SweepNext]_vars

\* --- a drop on the drop zone: handleDrop, its reads and listings one at a time
top == frames[Len(frames)]
setTop(frame) == [frames EXCEPT ![Len(frames)] = frame]
Awaiting == pc = "reading" /\ pending = NoPending /\ Len(frames) > 0
Started == [calls EXCEPT !.started = @ + 1]
Finished == [calls EXCEPT !.finished = @ + 1]

\* handleDrop up to its loop
HandleDrop ==
    /\ pc = "dropped"
    /\ IF Len(dropped) = 0
       THEN error' = NoFilesMessage /\ pc' = "returned" /\ UNCHANGED frames
       ELSE error' = NoError /\ pc' = "reading" /\ frames' = <<Frame(dropped, <<>>, FALSE)>>
    /\ UNCHANGED <<dropped, pending, calls, delivered,
                   chartVars, referenceVars, helperVars, valueVars, layoutVars, filterVars, sweepVars, appVars>>

\* if (!entry) continue, and an entry that is neither a file nor a directory
SkipEntry ==
    /\ Awaiting /\ top.rest # <<>>
    /\ ~Head(top.rest).isFile /\ ~Head(top.rest).isDirectory
    /\ frames' = setTop([top EXCEPT !.rest = Tail(@)])
    /\ UNCHANGED <<dropped, pending, calls, delivered, error, pc,
                   chartVars, referenceVars, helperVars, valueVars, layoutVars, filterVars, sweepVars, appVars>>

\* await readFileEntry(entry): entry.file and reader.readAsText are started
ReadFileEntry ==
    /\ Awaiting /\ top.rest # <<>>
    /\ Head(top.rest).isFile
    /\ pending' = [op |-> "read", entry |-> Head(top.rest)]
    /\ frames' = setTop([top EXCEPT !.rest = Tail(@)])
    /\ calls' = Started
    /\ UNCHANGED <<dropped, delivered, error, pc,
                   chartVars, referenceVars, helperVars, valueVars, layoutVars, filterVars, sweepVars, appVars>>

\* reader.onload: the promise resolves with the path and the text, which the
\* awaiting call sets in its files
FileLoaded ==
    /\ pc = "reading" /\ pending.op = "read"
    /\ frames' = setTop([top EXCEPT
                            !.files = mapSet(@, pending.entry.fullPath, pending.entry.content)])
    /\ pending' = NoPending
    /\ calls' = Finished
    /\ UNCHANGED <<dropped, delivered, error, pc,
                   chartVars, referenceVars, helperVars, valueVars, layoutVars, filterVars, sweepVars, appVars>>

\* reader.onerror or the error callback of entry.file: the promise resolves
\* with null and the awaiting call goes on
FileFailed ==
    /\ pc = "reading" /\ pending.op = "read"
    /\ pending' = NoPending
    /\ calls' = Finished
    /\ UNCHANGED <<dropped, frames, delivered, error, pc,
                   chartVars, referenceVars, helperVars, valueVars, layoutVars, filterVars, sweepVars, appVars>>

\* await readDirectoryEntry(entry): a reader is created and its first
\* readEntries is started
ReadDirectoryEntry ==
    /\ Awaiting /\ top.rest # <<>>
    /\ Head(top.rest).isDirectory
    /\ frames' = Append(setTop([top EXCEPT !.rest = Tail(@)]),
                        Frame(<<>>, Head(top.rest).children, TRUE))
    /\ pending' = [op |-> "list"]
    /\ calls' = Started
    /\ UNCHANGED <<dropped, delivered, error, pc,
                   chartVars, referenceVars, helperVars, valueVars, layoutVars, filterVars, sweepVars, appVars>>

\* entries = await readEntries() at the end of the while body
ReadEntriesAgain ==
    /\ Awaiting /\ top.dir /\ top.rest = <<>>
    /\ pending' = [op |-> "list"]
    /\ calls' = Started
    /\ UNCHANGED <<dropped, frames, delivered, error, pc,
                   chartVars, referenceVars, helperVars, valueVars, layoutVars, filterVars, sweepVars, appVars>>

\* readEntries resolves with the next k entries of the directory
EntriesListed(k) ==
    /\ pc = "reading" /\ pending.op = "list"
    /\ k \in 1..Len(top.unlisted)
    /\ frames' = setTop([top EXCEPT !.rest = SubSeq(top.unlisted, 1, k),
                                    !.unlisted = SubSeq(top.unlisted, k + 1, Len(top.unlisted))])
    /\ pending' = NoPending
    /\ calls' = Finished
    /\ UNCHANGED <<dropped, delivered, error, pc,
                   chartVars, referenceVars, helperVars, valueVars, layoutVars, filterVars, sweepVars, appVars>>

\* readEntries resolves with no entry: readDirectoryEntry returns its files,
\* which the caller sets in its own
DirectoryRead ==
    /\ pc = "reading" /\ pending.op = "list"
    /\ top.unlisted = <<>>
    /\ frames' = [k \in 1..(Len(frames) - 1) |->
                      IF k = Len(frames) - 1
                      THEN [frames[k] EXCEPT !.files = mapSetAll(@, top.files, 1)]
                      ELSE frames[k]]
    /\ pending' = NoPending
    /\ calls' = Finished
    /\ UNCHANGED <<dropped, delivered, error, pc,
                   chartVars, referenceVars, helperVars, valueVars, layoutVars, filterVars, sweepVars, appVars>>

\* readEntries rejects: every awaiting call rejects in turn, handleDrop last
ListingRejected ==
    /\ pc = "reading" /\ pending.op = "list"
    /\ pending' = NoPending
    /\ calls' = Finished
    /\ pc' = "rejected"
    /\ UNCHANGED <<dropped, frames, delivered, error,
                   chartVars, referenceVars, helperVars, valueVars, layoutVars, filterVars, sweepVars, appVars>>

\* handleDrop after its loop
ValidateDrop ==
    /\ Awaiting /\ ~top.dir /\ top.rest = <<>>
    /\ IF hasChartYaml(top.files)
       THEN delivered' = Append(delivered, top.files) /\ UNCHANGED error
       ELSE error' = NoChartMessage /\ UNCHANGED delivered
    /\ pc' = "returned"
    /\ UNCHANGED <<dropped, frames, pending, calls,
                   chartVars, referenceVars, helperVars, valueVars, layoutVars, filterVars, sweepVars, appVars>>

DropInit ==
    /\ helmChart = Idle /\ selectedFile = Idle /\ isLoading = Idle /\ inFlight = Idle /\ fileTree = Idle
    /\ sweepColumns = Idle /\ sweepPositions = Idle /\ sweepIteration = Idle /\ sweepColIndex = Idle /\ sweepSorted = Idle
    /\ dropped \in Drops /\ frames = <<>> /\ pending = NoPending
    /\ calls = [started |-> 0, finished |-> 0]
    /\ delivered = <<>> /\ error = NoError /\ pc = "dropped"
    /\ files = Idle /\ chart = Idle /\ graph = Idle /\ templateText = Idle /\ references = Idle
    /\ helperText = Idle /\ helpers = Idle /\ raw = Idle /\ flatKeys = Idle /\ lookups = Idle
    /\ nodes = Idle /\ edges = Idle /\ layout1 = Idle /\ layout2 = Idle
    /\ filterPath = Idle /\ filtered = Idle

DropNext ==
    \/ HandleDrop
    \/ SkipEntry
    \/ ReadFileEntry
    \/ FileLoaded
    \/ FileFailed
    \/ ReadDirectoryEntry
    \/ ReadEntriesAgain
    \/ \E k \in 1..MaxDirEntries : EntriesListed(k)
    \/ DirectoryRead
    \/ ListingRejected
    \/ ValidateDrop

SpecDrop == DropInit /\ [][DropNext]_vars

\* --- the App: drops whose reads are under way, clicks and Reset.  The drop
\* zone is drawn while helmChart is null, the tree, the graph and the Reset
\* button while it is not; a handleDrop that is awaiting a read goes on when
\* the drop zone is no longer drawn.
app == AppState(helmChart, selectedFile, isLoading)

\* the state the setters leave; when the chart has changed, the tree FileTree
\* makes of it and the graph GraphView makes of it (both are memoized on it)
setApp(next) ==
    /\ helmChart' = next.helmChart
    /\ selectedFile' = next.selectedFile
    /\ isLoading' = next.isLoading
    /\ IF next.helmChart = helmChart THEN fileTree' = fileTree /\ graph' = graph
       ELSE IF next.helmChart = Null THEN fileTree' = <<>> /\ graph' = Idle
       ELSE /\ fileTree' = buildFileTree(next.helmChart.files)
            /\ graph' = buildGraphData(next.helmChart)

\* handleDrop up to its first await, for a drop whose reads give the Map m
DropFiles(m) ==
    /\ pc = "app" /\ helmChart = Null
    /\ Len(inFlight) < MaxInFlight
    /\ Len(delivered) + Len(inFlight) < MaxDrops
    /\ inFlight' = Append(inFlight, m)
    /\ UNCHANGED <<helmChart, selectedFile, isLoading, fileTree, pc,
                   dropped, frames, pending, calls, delivered, error,
                   files, chart, graph, referenceVars, helperVars, valueVars, layoutVars, filterVars, sweepVars>>

\* handleDrop after its last await: the validation, then onFilesDropped(files),
\* which is handleFilesDropped
ReadsDone(i) ==
    /\ pc = "app" /\ i \in 1..Len(inFlight)
    /\ hasChartYaml(inFlight[i])
    /\ inFlight' = SubSeq(inFlight, 1, i - 1) \o SubSeq(inFlight, i + 1, Len(inFlight))
    /\ delivered' = Append(delivered, inFlight[i])
    /\ setApp(handleFilesDropped(app, inFlight[i]))
    /\ UNCHANGED <<pc, dropped, frames, pending, calls, error,
                   files, chart, referenceVars, helperVars, valueVars, layoutVars, filterVars, sweepVars>>

\* a click on the k-th item of the tree that is a file
ClickFileItem(k) ==
    /\ pc = "app" /\ helmChart # Null
    /\ k \in 1..Len(renderedItems(fileTree))
    /\ renderedItems(fileTree)[k].type = "file"
    /\ setApp(onItemClick(app, renderedItems(fileTree)[k]))
    /\ UNCHANGED <<inFlight, pc, dropVars,
                   files, chart, referenceVars, helperVars, valueVars, layoutVars, filterVars, sweepVars>>

\* a click on the k-th node of the graph
ClickNode(k) ==
    /\ pc = "app" /\ helmChart # Null
    /\ k \in 1..Len(graph.nodes)
    /\ setApp(onNodeClick(app, graph.nodes[k]))
    /\ UNCHANGED <<inFlight, pc, dropVars,
                   files, chart, referenceVars, helperVars, valueVars, layoutVars, filterVars, sweepVars>>

\* a click on the pane of the graph
ClickPane ==
    /\ pc = "app" /\ helmChart # Null
    /\ setApp(onPaneClick(app))
    /\ UNCHANGED <<inFlight, pc, dropVars,
                   files, chart, referenceVars, helperVars, valueVars, layoutVars, filterVars, sweepVars>>

\* a click on the Reset button
HandleReset ==
    /\ pc = "app" /\ helmChart # Null
    /\ setApp(handleReset(app))
    /\ UNCHANGED <<inFlight, pc, dropVars,
                   files, chart, referenceVars, helperVars, valueVars, layoutVars, filterVars, sweepVars>>

AppInit ==
    /\ helmChart = Null /\ selectedFile = Null /\ isLoading = FALSE
    /\ inFlight = <<>> /\ fileTree = <<>> /\ delivered = <<>> /\ pc = "app"
    /\ sweepColumns = Idle /\ sweepPositions = Idle /\ sweepIteration = Idle
    /\ sweepColIndex = Idle /\ sweepSorted = Idle
    /\ dropped = Idle /\ frames = Idle /\ pending = Idle /\ calls = Idle /\ error = Idle
    /\ filterPath = Idle /\ filtered = Idle
    /\ files = Idle /\ chart = Idle /\ graph = Idle
    /\ templateText = Idle /\ references = Idle /\ helperText = Idle /\ helpers = Idle
    /\ raw = Idle /\ flatKeys = Idle /\ lookups = Idle
    /\ nodes = Idle /\ edges = Idle /\ layout1 = Idle /\ layout2 = Idle

AppNext ==
    \/ \E m \in AppDrops : DropFiles(m)
    \/ \E i \in 1..Len(inFlight) : ReadsDone(i)
    \/ \E k \in 1..Len(renderedItems(fileTree)) : ClickFileItem(k)
    \/ helmChart # Null /\ \E k \in 1..Len(graph.nodes) : ClickNode(k)
    \/ ClickPane
    \/ HandleReset

SpecApp == AppInit /\ [][AppNext]_vars

(***************************************************************************)
(* Properties of a parsed drop and of its graph (SpecChart).               *)
(***************************************************************************)
Parsed == pc \in {"parsed", "built", "filtered"}

nodeIds == [n \in 1..Len(graph.nodes) |-> graph.nodes[n].id]

\* C1: every edge of buildGraphData(chart).edges has a source and a target
\* that are each the id of a node of buildGraphData(chart).nodes: a reference
\* whose target is no node yields no edge
C1_EdgeEndsAreNodes ==
    pc = "built" =>
        \A e \in 1..Len(graph.edges) :
            /\ graph.edges[e].source \in Range(nodeIds)
            /\ graph.edges[e].target \in Range(nodeIds)

\* the graph of a template that includes a helper no file defines
C1_IncludeWithoutDefine ==
    /\ pc = "built"
    /\ files = <<Entry(DeployYaml, TextInclude)>>
    /\ \E e \in 1..Len(graph.edges) : graph.edges[e].target = <<"helper", ":", "h">>

\* C2: the node ids of buildGraphData(chart).nodes are pairwise distinct,
\* for every chart parseHelmChart can produce
C2_NodeIdsDistinct == pc = "built" => IsInjective(nodeIds)

\* the graph of a helper file that defines the same name twice
C2_HelperDefinedTwice ==
    /\ pc = "built"
    /\ files = <<Entry(HelpersTpl, HelperTwice)>>
    /\ Len(chart.value.helpers) = 2

\* C4: parseHelmChart never throws: a Chart.yaml or values.yaml that is
\* malformed or no mapping counts as an empty mapping, and the chart holds the
\* files, references and helpers of the other inputs
C4_ParseNeverThrows == pc # "threw"

\* a malformed values.yaml is parsed to the empty mapping
C4_MalformedValuesCaught ==
    /\ Parsed
    /\ \E i \in 1..Len(files) : files[i] = Entry(RootValuesYaml, MalformedDoc)
    /\ chart.value.values = [raw |-> JsObject(<<>>, <<>>), flatKeys |-> <<>>]

\* the inputs parseHelmChart keeps, as HelmFiles in input order
RECURSIVE keptFiles(_, _)
keptFiles(entries, k) ==
    IF k > Len(entries) THEN <<>>
    ELSE LET path == normalizePath(entries[k].path)
         IN  (IF isRelevantFile(path) THEN <<HelmFile(path, entries[k].content)>> ELSE <<>>)
             \o keptFiles(entries, k + 1)

\* the references and helper definitions of the kept files, in input order
RECURSIVE keptReferences(_, _)
keptReferences(kept, k) ==
    IF k > Len(kept) THEN <<>>
    ELSE (IF kept[k].type \in {"template", "helper", "notes"}
          THEN extractReferences(kept[k].content, kept[k].path) ELSE <<>>)
         \o keptReferences(kept, k + 1)

RECURSIVE keptHelpers(_, _)
keptHelpers(kept, k) ==
    IF k > Len(kept) THEN <<>>
    ELSE (IF kept[k].type = "helper"
          THEN extractHelperDefinitions(kept[k].content, kept[k].path) ELSE <<>>)
         \o keptHelpers(kept, k + 1)

NoChartFile ==
    \A i \in 1..Len(files) : determineFileType(normalizePath(files[i].path)) # "chart"

\* C5: when no input path is classified as a chart-metadata file,
\* parseHelmChart returns name "unknown-chart", version "0.0.0",
\* chartYaml.apiVersion "v2", no dependencies, and the files, references and
\* helpers extracted from the other inputs
C5_DefaultChart ==
    (pc # "collect" /\ NoChartFile) =>
        /\ ~chart.threw
        /\ chart.value.name = <<"unknown", "-", "chart">>
        /\ chart.value.version = <<"0", ".", "0", ".", "0">>
        /\ chart.value.chartYaml.apiVersion = <<"v", "2">>
        /\ chart.value.dependencies = <<>>
        /\ chart.value.files = keptFiles(files, 1)
        /\ chart.value.references = keptReferences(keptFiles(files, 1), 1)
        /\ chart.value.helpers = keptHelpers(keptFiles(files, 1), 1)

\* a drop of a template and a helper file, without a Chart.yaml, is parsed
C5_ParsedWithoutChartYaml ==
    /\ pc = "parsed" /\ NoChartFile
    /\ Len(chart.value.files) = 2
    /\ Len(chart.value.references) > 1
    /\ Len(chart.value.helpers) > 0

\* the segments of a raw path, both separators counted
rawSegments(rawPath) ==
    split([i \in 1..Len(rawPath) |-> IF rawPath[i] = "\\" THEN "/" ELSE rawPath[i]], "/")

\* the files the chart is to hold: not hidden, under no charts directory, and
\* Chart.yaml, values.yaml, a .yaml/.yml/.tpl file under templates/ or
\* templates/NOTES.txt
Analyzed(rawPath) ==
    LET segments == rawSegments(rawPath)
        fileName == segments[Len(segments)]
        underTemplates == \E i \in 1..(Len(segments) - 1) : segments[i] = <<"templates">>
    IN  /\ ~startsWithDot(fileName)
        /\ \A i \in 1..(Len(segments) - 1) : segments[i] # <<"charts">>
        /\ \/ fileName \in {<<"Chart", ".yaml">>, <<"values", ".yaml">>}
           \/ underTemplates /\ fileName[Len(fileName)] \in {".yaml", ".yml", ".tpl"}
           \/ underTemplates /\ fileName = <<"NOTES", ".txt">>

\* C6: an input file appears in chart.files only if its file name does not
\* start with a dot, no segment of its path is a charts directory, and it is
\* Chart.yaml, values.yaml, a .yaml/.yml/.tpl file under templates/ or
\* templates/NOTES.txt; every other file is skipped
C6_OnlyAnalyzedFilesKept ==
    Parsed =>
        \A i \in 1..Len(files) :
            HelmFile(normalizePath(files[i].path), files[i].content) \in Range(chart.value.files)
                => Analyzed(files[i].path)

\* a README is skipped, a template is kept
C6_ReadmeSkipped ==
    /\ Parsed
    /\ files = <<Entry(ReadmeMd, TextValues), Entry(DeployYaml, TextValues)>>
    /\ Len(chart.value.files) = 1

(***************************************************************************)
(* Properties of extractReferences (SpecReferences).                       *)
(***************************************************************************)

\* C3: when the same .Values.<path> expression occurs k times on one line,
\* the k values references extractReferences returns for it have pairwise
\* distinct ids
C3_SameLineIdsDistinct ==
    pc = "extracted" =>
        \A i, j \in 1..Len(references) :
            (/\ i # j
             /\ references[i].type = "values" /\ references[j].type = "values"
             /\ references[i].line = references[j].line
             /\ references[i].target.path = references[j].target.path)
                => references[i].id # references[j].id

\* two occurrences of .Values.a on one line give two references to the path a
C3_TwoOccurrencesTwoReferences ==
    /\ pc = "extracted"
    /\ templateText = <<".", "Values", ".", "a", " ", ".", "Values", ".", "a">>
    /\ Len(references) = 2
    /\ \A i \in 1..2 : references[i].type = "values" /\ references[i].target.path = <<"a">>

\* the position after the path segment at j, `.identifier` or `[expr]`; j when
\* there is none
pathSegmentEnd(s, j) ==
    IF j + 1 <= Len(s) /\ s[j] = "." /\ IsIdentStart(s[j + 1])
    THEN CHOOSE e \in (j + 2)..(Len(s) + 1) :
            /\ \A m \in (j + 2)..(e - 1) : IsIdentChar(s[m])
            /\ e <= Len(s) => ~IsIdentChar(s[e])
    ELSE IF j <= Len(s) /\ s[j] = "[" /\ \E k \in (j + 2)..Len(s) : s[k] = "]"
    THEN LET close == CHOOSE k \in (j + 1)..Len(s) :
                          s[k] = "]" /\ \A m \in (j + 1)..(k - 1) : s[m] # "]"
         IN  IF close > j + 1 THEN close + 1 ELSE j
    ELSE j

\* the position after the longest run of path segments from j on
RECURSIVE pathEnd(_, _)
pathEnd(s, j) == IF pathSegmentEnd(s, j) = j THEN j ELSE pathEnd(s, pathSegmentEnd(s, j))

\* the occurrences of `.Values.<path>` in a text from position i on, line
\* being the physical line of position i: for each its line and its <path>
RECURSIVE occurrences(_, _, _)
occurrences(s, i, line) ==
    IF i > Len(s) THEN <<>>
    ELSE IF s[i] = "\n" THEN occurrences(s, i + 1, line + 1)
    ELSE IF i + 1 <= Len(s) /\ s[i] = "." /\ s[i + 1] = "Values" /\ pathEnd(s, i + 2) > i + 2
    THEN LET after == SubSeq(s, i + 2, pathEnd(s, i + 2) - 1)
         IN  <<[line |-> line, path |-> IF after[1] = "." THEN Tail(after) ELSE after]>>
                 \o occurrences(s, pathEnd(s, i + 2), line)
    ELSE occurrences(s, i + 1, line)

valuesReferences == SelectSeq(references, LAMBDA r : r.type = "values")

\* C15: for a text with N occurrences of `.Values.<path>` over any lines,
\* extractReferences returns N references of type values, in order, each with
\* line and source.line the 1-based physical line of its occurrence and
\* target.path its <path>, dots and brackets as written; a `.Values` that no
\* segment follows gives none
C15_OneReferencePerOccurrence ==
    pc = "extracted" =>
        /\ [k \in 1..Len(valuesReferences) |->
               [line |-> valuesReferences[k].line, path |-> valuesReferences[k].target.path]]
              = occurrences(templateText, 1, 1)
        /\ \A k \in 1..Len(valuesReferences) :
              valuesReferences[k].source.line = valuesReferences[k].line

\* .Values.a[0] on the first line, a bare .Values on the second
C15_BracketPathAndBareValues ==
    /\ pc = "extracted"
    /\ templateText = <<".", "Values", ".", "a", "[", "0", "]", "\n", ".", "Values">>
    /\ Len(references) = 1
    /\ references[1].line = 1
    /\ references[1].target.path = <<"a", "[", "0", "]">>

(***************************************************************************)
(* Properties of extractHelperDefinitions (SpecHelpers).  An end marker    *)
(* closes the last define marker before it that is still open; no other    *)
(* marker is taken to open a block.                                        *)
(***************************************************************************)
IsDefineMarker(s, i) == defineOpenEnd(s, i) # 0
IsEndMarker(s, i) == endMarkerEnd(s, i) # 0

\* the positions of the define markers no end marker closes
RECURSIVE openBlocks(_, _, _)
openBlocks(s, i, open) ==
    IF i > Len(s) THEN open
    ELSE IF IsDefineMarker(s, i)
    THEN openBlocks(s, i + 1, Append(open, i))
    ELSE IF IsEndMarker(s, i) /\ Len(open) > 0
    THEN openBlocks(s, i + 1, SubSeq(open, 1, Len(open) - 1))
    ELSE openBlocks(s, i + 1, open)

unterminatedDefines(s) == Range(openBlocks(s, 1, <<>>))

definedName(s, i) == SubSeq(s, defineQuoteAt(s, i) + 1, quotedClose(s, defineQuoteAt(s, i)) - 1)

\* C7: a define "NAME" open marker without an end marker of its own gives no
\* HelperDefinition, whatever follows it; the block is told from the others
\* by its name, so the blocks whose name no other define marker carries are
\* the ones looked at
C7_UnterminatedDefineSkipped ==
    pc = "extracted" =>
        \A i \in unterminatedDefines(helperText) :
            (\A j \in 1..Len(helperText) :
                (IsDefineMarker(helperText, j) /\ j # i)
                    => definedName(helperText, j) # definedName(helperText, i))
                => \A h \in 1..Len(helpers) : helpers[h].name # definedName(helperText, i)

\* a define marker alone in the file gives no definition
C7_LoneDefineSkipped ==
    /\ pc = "extracted"
    /\ helperText = DefineH \o <<"a">>
    /\ helpers = <<>>

\* the text at position i is the marker m
markerAt(s, i, m) == i + Len(m) - 1 <= Len(s) /\ SubSeq(s, i, i + Len(m) - 1) = m

PlainText == {"a", "\n"}
DefineMarkers == {DefineH, DefineG}
EndMarkers == {EndMarker, EndTrimMarker}
definedBy(m) == IF m = DefineH THEN <<"h">> ELSE <<"g">>
newlinesIn(s, from, to) == Cardinality({k \in from..to : s[k] = "\n"})

\* A helper file read as plain text and blocks, from position i on: a block is
\* a define marker, a body of plain text and an end marker.  ok tells whether
\* the file is made of these only; blocks holds, for each block, its name, the
\* line its opening braces are on and its body trimmed.
RECURSIVE blocksFrom(_, _, _, _)
blocksFrom(s, i, line, blocks) ==
    IF i > Len(s) THEN [ok |-> TRUE, blocks |-> blocks]
    ELSE IF s[i] \in PlainText
    THEN blocksFrom(s, i + 1, line + newlinesIn(s, i, i), blocks)
    ELSE IF \E m \in DefineMarkers : markerAt(s, i, m)
    THEN LET open == CHOOSE m \in DefineMarkers : markerAt(s, i, m)
             b == i + Len(open)
             e == CHOOSE k \in b..(Len(s) + 1) :
                      /\ \A j \in b..(k - 1) : s[j] \in PlainText
                      /\ k <= Len(s) => s[k] \notin PlainText
         IN  IF \E m \in EndMarkers : markerAt(s, e, m)
             THEN blocksFrom(s, e + Len(CHOOSE m \in EndMarkers : markerAt(s, e, m)),
                             line + newlinesIn(s, b, e - 1),
                             Append(blocks, [name |-> definedBy(open), line |-> line,
                                             content |-> trim(SubSeq(s, b, e - 1))]))
             ELSE [ok |-> FALSE, blocks |-> <<>>]
    ELSE [ok |-> FALSE, blocks |-> <<>>]

\* C16: for a helper file made of k properly terminated define blocks, with or
\* without trim markers, whose bodies hold no other end action,
\* extractHelperDefinitions returns k definitions in file order, each with
\* the name of its block, the trimmed inner text as content, and as line 1
\* plus the number of newlines before the block's opening braces
C16_OneDefinitionPerBlock ==
    (pc = "extracted" /\ blocksFrom(helperText, 1, 1, <<>>).ok) =>
        helpers = [k \in 1..Len(blocksFrom(helperText, 1, 1, <<>>).blocks) |->
                      [name |-> blocksFrom(helperText, 1, 1, <<>>).blocks[k].name,
                       file |-> HelperFilePath,
                       line |-> blocksFrom(helperText, 1, 1, <<>>).blocks[k].line,
                       content |-> blocksFrom(helperText, 1, 1, <<>>).blocks[k].content]]

\* a blank line, then a block without and a block with trim markers
C16_TwoBlocksOnLineTwo ==
    /\ pc = "extracted"
    /\ helperText = <<"\n">> \o DefineH \o EndMarker \o DefineG \o EndTrimMarker
    /\ Len(helpers) = 2
    /\ helpers[1].name = <<"h">> /\ helpers[1].line = 2
    /\ helpers[2].name = <<"g">> /\ helpers[2].line = 2

(***************************************************************************)
(* Properties of flattenValues and getValueByPath (SpecValues).            *)
(***************************************************************************)

\* C8: for every entry e of the flatKeys of a configuration tree raw,
\* getValueByPath(raw, e.path) is e.value, bracket-index paths included
C8_LookupReturnsFlatValue ==
    pc = "looked up" =>
        \A i \in 1..Len(flatKeys) : lookups[i] = flatKeys[i].value

\* the round trip of a nested key and of the mapping that holds it
C8_DottedPathFound ==
    /\ pc = "looked up"
    /\ \E i \in 1..Len(flatKeys) :
          flatKeys[i].path = <<"a", ".", "b">> /\ lookups[i] = JsNumber(<<"1">>)
    /\ \A i \in 1..Len(flatKeys) : lookups[i] = flatKeys[i].value

(***************************************************************************)
(* Properties of autoOrganizeLayout (SpecLayout).  nodes and edges are the *)
(* arguments of the first call as it leaves them, layout1 its result and   *)
(* the argument of the second call, layout2 the result of the second call. *)
(***************************************************************************)
positionsOf(ns) == [i \in 1..Len(ns) |-> ns[i].position]

\* C9: autoOrganizeLayout(autoOrganizeLayout(nodes, edges), edges) gives every
\* node the position autoOrganizeLayout(nodes, edges) gave it
C9_LayoutIdempotent ==
    pc = "laid out again" => positionsOf(layout2) = positionsOf(layout1)

\* a graph of three nodes and two edges, laid out twice, whose nodes were moved
C9_LaidOutTwice ==
    /\ pc = "laid out again"
    /\ Len(nodes) = 3 /\ Len(edges) = 2
    /\ \E i \in 1..Len(nodes) : layout1[i].position # nodes[i].position
    /\ \E i \in 1..Len(nodes) : layout1[i].position.y > 0

\* out is ns with nothing but the position fields changed
OnlyPositionsDiffer(ns, out) ==
    /\ Len(out) = Len(ns)
    /\ \A i \in 1..Len(ns) : [out[i] EXCEPT !.position = ns[i].position] = ns[i]

\* C10: autoOrganizeLayout returns as many nodes as it is given, in the same
\* order, each with its id, type and data; only the position differs
C10_OnlyPositionsChange ==
    /\ pc \in {"laid out", "laid out again"} => OnlyPositionsDiffer(nodes, layout1)
    /\ pc = "laid out again" => OnlyPositionsDiffer(layout1, layout2)

\* a graph of two nodes or more is laid out and a node of it is moved
C10_NodesMoved ==
    /\ pc = "laid out"
    /\ Len(nodes) >= 2
    /\ layout1[1].id # layout1[2].id
    /\ \E i \in 1..Len(nodes) : layout1[i].position # nodes[i].position

\* the column autoOrganizeLayout draws a node of a node list in
drawnColumn(n) ==
    CASE n.type = "file" -> IF n.data.fileType \in {"chart", "values"} THEN 1 ELSE 0
      [] n.type = "release" -> 1
      [] n.type = "value" -> 2
      [] n.type = "helper" -> 3

\* no two nodes of a laid out list share a position, and no two nodes of one
\* column share their y
Spread(out) ==
    \A i, j \in 1..Len(out) : i # j =>
        /\ out[i].position # out[j].position
        /\ drawnColumn(out[i]) = drawnColumn(out[j]) => out[i].position.y # out[j].position.y

\* C27: for a graph whose node ids are pairwise distinct, autoOrganizeLayout
\* gives no two nodes the same (x, y) position: the nodes of one column get
\* pairwise different y values
C27_NoTwoNodesOnOneSpot ==
    /\ (pc \in {"laid out", "laid out again"} /\ IsInjective(map(nodes, LAMBDA n : n.id)))
          => Spread(layout1)
    /\ (pc = "laid out again" /\ IsInjective(map(nodes, LAMBDA n : n.id)))
          => Spread(layout2)

\* three value nodes of two groups, laid out at three different heights
C27_ThreeValuesThreeHeights ==
    /\ pc = "laid out"
    /\ Len(nodes) = 3
    /\ \A i \in 1..3 : nodes[i].type = "value"
    /\ Cardinality({layout1[i].position.y : i \in 1..3}) = 3

(***************************************************************************)
(* Properties of filterGraphByFile (SpecChart).                            *)
(***************************************************************************)
fileNodeIdOf(p) == <<"file", ":">> \o p

\* the edges of the graph that have file:p as source or target
edgesAt(p) ==
    {e \in Range(graph.edges) : e.source = fileNodeIdOf(p) \/ e.target = fileNodeIdOf(p)}

C12_FilteredEdgeEndsKept ==
    pc = "filtered" =>
        \A e \in 1..Len(filtered.edges) :
            /\ \E n \in 1..Len(filtered.nodes) : filtered.nodes[n].id = filtered.edges[e].source
            /\ \E n \in 1..Len(filtered.nodes) : filtered.nodes[n].id = filtered.edges[e].target

\* a filtered graph with edges whose ends are all kept
C12_FilteredWithValueEdge ==
    /\ pc = "filtered"
    /\ \E e \in 1..Len(filtered.edges) : filtered.edges[e].data.referenceType = "values"
    /\ \A e \in 1..Len(filtered.edges) :
          {filtered.edges[e].source, filtered.edges[e].target}
              \subseteq {filtered.nodes[n].id : n \in 1..Len(filtered.nodes)}

(***************************************************************************)
(* Properties of a chart dropped as one folder (SpecChart).                *)
(***************************************************************************)
RootFolder == <<"mychart">>

\* the segments of a raw path after its leading slashes
segmentsOf(rawPath) == rawSegments(stripLeadingSlashes(rawPath))

\* the path of a file relative to the dropped folder
relativePath(rawPath) == join(Tail(segmentsOf(rawPath)), "/")

IsRootChartYaml(f) == segmentsOf(f.path) = <<RootFolder, ChartYamlName>>

\* every input path lies under the dropped folder, which holds a Chart.yaml
UnderOneRoot ==
    /\ \A i \in 1..Len(files) :
          Len(segmentsOf(files[i].path)) > 1 /\ segmentsOf(files[i].path)[1] = RootFolder
    /\ \E i \in 1..Len(files) : IsRootChartYaml(files[i])

\* the inputs the chart keeps, in input order
retained == filter(files, LAMBDA f : isRelevantFile(normalizePath(f.path)))

\* the target paths of the .Values expressions of a template text
valuePathsOf(text) ==
    {r.target.path : r \in {x \in Range(extractReferences(text, TemplateFilePath)) :
                               x.type = "values"}}

IsRootTemplate(f) ==
    /\ Len(segmentsOf(f.path)) = 3
    /\ segmentsOf(f.path)[2] = <<"templates">>
    /\ endsWith(segmentsOf(f.path)[3], ".yaml")

\* C17: when every input path lies under one dropped folder that holds
\* Chart.yaml directly (a leading slash or backslash separators allowed),
\* every file the chart keeps has its path relative to that folder, each
\* .Values.p of <root>/templates/f.yaml gives a node value:p and an edge from
\* file:templates/f.yaml to value:p, and chart.name is the name in Chart.yaml
C17_PathsRelativeToRoot ==
    (pc = "built" /\ UnderOneRoot) =>
        /\ Len(chart.value.files) = Len(retained)
        /\ \A j \in 1..Len(retained) :
              chart.value.files[j].path = relativePath(retained[j].path)
        /\ \A i \in 1..Len(files) : IsRootTemplate(files[i]) =>
              \A p \in valuePathsOf(files[i].content) :
                  /\ (<<"value", ":">> \o p) \in Range(nodeIds)
                  /\ \E e \in 1..Len(graph.edges) :
                        /\ graph.edges[e].source = fileNodeIdOf(relativePath(files[i].path))
                        /\ graph.edges[e].target = <<"value", ":">> \o p
        /\ \A i \in 1..Len(files) : IsRootChartYaml(files[i]) =>
              chart.value.name = parseChartYaml(files[i].content).value.name

\* a Chart.yaml and a template with backslash separators, dropped as the
\* folder mychart: the chart is named mychart and the template reads a.b
C17_FolderWithBackslashes ==
    /\ pc = "built"
    /\ files = <<Entry(RootChartYaml, ChartDoc), Entry(DeployYamlBackslash, TextValues)>>
    /\ chart.value.name = <<"mychart">>
    /\ chart.value.files[2].path = TemplateFilePath
    /\ <<"value", ":", "a", ".", "b">> \in Range(nodeIds)
    /\ \E e \in 1..Len(graph.edges) :
          /\ graph.edges[e].source = fileNodeIdOf(TemplateFilePath)
          /\ graph.edges[e].target = <<"value", ":", "a", ".", "b">>

(***************************************************************************)
(* Properties of the edges and nodes of buildGraphData (SpecChart).        *)
(***************************************************************************)
HasChartFile == \E i \in 1..Len(chart.value.files) : chart.value.files[i].type = "chart"

\* the references that are drawn as an edge
IsDrawn(ref) ==
    \/ ref.type \in {"values", "include", "template", "release"}
    \/ ref.type = "chart" /\ HasChartFile

drawn == filter(chart.value.references, IsDrawn)

\* the ids of the file nodes of the graph that show a chart-metadata file
chartFileNodeIds ==
    {n.id : n \in {x \in Range(graph.nodes) : x.type = "file" /\ x.data.fileType = "chart"}}

\* the node a drawn reference points to
IsTargetOf(id, ref) ==
    CASE ref.type = "values" -> id = <<"value", ":">> \o ref.target.path
      [] ref.type \in {"include", "template"} -> id = <<"helper", ":">> \o ref.target.path
      [] ref.type = "chart" -> id \in chartFileNodeIds
      [] ref.type = "release" -> id = <<"release", ":", "info">>

\* C18: buildGraphData creates one edge per reference of type values,
\* include, template or release, and per chart reference when the chart has a
\* chart-metadata file, in reference order; the edge has the id of its
\* reference, the source file:<source file> and the target value:<path>,
\* helper:<path>, the chart file node or release:info; files and
\* capabilities references, and chart references without a chart file, give
\* no edge
C18_OneEdgePerDrawnReference ==
    pc = "built" =>
        /\ Len(graph.edges) = Len(drawn)
        /\ \A j \in 1..Len(drawn) :
              /\ graph.edges[j].id = drawn[j].id
              /\ graph.edges[j].source = fileNodeIdOf(drawn[j].source.file)
              /\ IsTargetOf(graph.edges[j].target, drawn[j])

\* a Chart.yaml and a template that includes h and reads .Chart.Name: an edge
\* to helper:h, then an edge to the chart file node
C18_IncludeAndChartEdges ==
    /\ pc = "built"
    /\ files = <<Entry(RootChartYaml, ChartDoc), Entry(DeployYaml, TextInclude)>>
    /\ Len(chart.value.references) = 2
    /\ Len(graph.edges) = 2
    /\ graph.edges[1].target = <<"helper", ":", "h">>
    /\ graph.edges[2].target = <<"file", ":", "Chart", ".yaml">>

\* the type and the id of each node of the graph, in the order of the list
nodeKinds == map(graph.nodes, LAMBDA n : <<n.type, n.id>>)

\* the file nodes of the files of chart.files that pass a test, the first
\* one only when the file is looked up with find
fileKinds(Test(_), firstOnly) ==
    LET found == filter(chart.value.files, Test)
        kinds == map(found, LAMBDA f : <<"file", fileNodeIdOf(f.path)>>)
    IN  IF firstOnly /\ Len(kinds) > 1 THEN <<kinds[1]>> ELSE kinds

IsSourceFile(f) == f.type \in {"template", "helper", "notes"}
IsMetadataFile(f) == f.type = "chart"
IsConfigurationFile(f) == f.type = "values"
IsValueKind(k) == k[1] = "value"

\* C19: the node list of buildGraphData holds the template, helper and notes
\* file nodes in the order of chart.files, then the chart-metadata file node
\* if there is one, then one release:info node, then the values file node if
\* there is one, then the value nodes, then one node per helper definition;
\* the list is the one the layout returned
C19_NodeOrder ==
    pc = "built" =>
        nodeKinds =
            fileKinds(IsSourceFile, FALSE)
            \o fileKinds(IsMetadataFile, TRUE)
            \o << <<"release", <<"release", ":", "info">> >> >>
            \o fileKinds(IsConfigurationFile, TRUE)
            \o filter(nodeKinds, IsValueKind)
            \o map(chart.value.helpers, LAMBDA h : <<"helper", <<"helper", ":">> \o h.name>>)

\* a Chart.yaml and a helper file that defines h and reads .Values.b: five
\* nodes, moved by the layout
C19_FiveKindsOfNode ==
    /\ pc = "built"
    /\ files = <<Entry(RootChartYaml, ChartDoc), Entry(HelpersTpl, HelperOnce)>>
    /\ nodeIds = << <<"file", ":", "templates", "/", "_helpers", ".tpl">>,
                    <<"file", ":", "Chart", ".yaml">>,
                    <<"release", ":", "info">>,
                    <<"value", ":", "b">>,
                    <<"helper", ":", "h">> >>
    /\ \E n \in 1..Len(graph.nodes) : graph.nodes[n].position # Position(0, 0)

\* the target paths of the values references, each where it is first met
RECURSIVE firstPaths(_, _)
firstPaths(refs, seen) ==
    IF refs = <<>> THEN <<>>
    ELSE IF Head(refs).type = "values" /\ Head(refs).target.path \notin seen
    THEN <<Head(refs).target.path>>
         \o firstPaths(Tail(refs), seen \cup {Head(refs).target.path})
    ELSE firstPaths(Tail(refs), seen)

IsValueNode(n) == n.type = "value"

\* C20: the value nodes of buildGraphData(chart) are the nodes value:p of the
\* target paths p of the values references of chart.references, one per
\* distinct path, in the order the paths are first referenced; whether
\* values.yaml holds the path plays no part
C20_ValueNodesAreReferencedPaths ==
    pc = "built" =>
        map(filter(graph.nodes, IsValueNode), LAMBDA n : <<n.id, n.data.valuePath>>)
            = map(firstPaths(chart.value.references, {}),
                  LAMBDA p : <<(<<"value", ":">> \o p), p>>)

\* a values.yaml that holds the path a only, and a template that reads a.b
\* and b: the nodes value:a.b and value:b, none for a
C20_UnreferencedAndAbsentPaths ==
    /\ pc = "built"
    /\ files = <<Entry(RootValuesYaml, ValuesDoc), Entry(DeployYaml, TextValues)>>
    /\ map(chart.value.values.flatKeys, LAMBDA k : k.path) = << <<"a">> >>
    /\ filter(nodeIds, LAMBDA id : id[1] = "value")
          = << <<"value", ":", "a", ".", "b">>, <<"value", ":", "b">> >>

\* the chart-metadata file nodes of the graph
chartNodes == filter(graph.nodes, LAMBDA n : n.type = "file" /\ n.data.fileType = "chart")

\* a file of the chart is the one a node shows
ShownBy(f, n) == f.type = "chart" /\ f.path = n.data.filePath

\* the metadata of the chart is what parseChartYaml reads in a file
ParsedFrom(f) ==
    LET parsed == parseChartYaml(f.content)
    IN  /\ ~parsed.threw
        /\ chart.value.chartYaml = parsed.value
        /\ chart.value.name = parsed.value.name
        /\ chart.value.version = parsed.value.version
        /\ chart.value.dependencies =
              (IF truthy(parsed.value.dependencies) THEN parsed.value.dependencies.items
               ELSE <<>>)

\* C28: the name, version, chartYaml and dependencies parseHelmChart returns
\* are parsed from the chart-type file that buildGraphData shows as the
\* chart-metadata node and that the chart edges point to, also when several
\* input files are classified as chart
C28_MetadataOfShownChartFile ==
    (pc = "built" /\ HasChartFile) =>
        /\ Len(chartNodes) = 1
        /\ \E i \in 1..Len(chart.value.files) :
              ShownBy(chart.value.files[i], chartNodes[1]) /\ ParsedFrom(chart.value.files[i])
        /\ \A e \in 1..Len(graph.edges) :
              graph.edges[e].data.referenceType = "chart"
                  => graph.edges[e].target = chartNodes[1].id

\* one Chart.yaml and a template that reads .Chart.Name: the metadata, the
\* node and the edge are those of that file
C28_OneChartFile ==
    /\ pc = "built"
    /\ files = <<Entry(DeployYaml, TextInclude), Entry(RootChartYaml, ChartDoc)>>
    /\ chart.value.name = <<"mychart">>
    /\ chartNodes[1].data.filePath = ChartYamlName
    /\ \E e \in 1..Len(graph.edges) :
          /\ graph.edges[e].data.referenceType = "chart"
          /\ graph.edges[e].target = fileNodeIdOf(ChartYamlName)

(***************************************************************************)
(* Properties of the layout of a chart's graph (SpecChart).  graph.nodes   *)
(* is the list autoOrganizeLayout returned to buildGraphData.              *)
(***************************************************************************)
HasDot(path) == "." \in Range(path)

\* the x of the column a node is drawn in
xOf(node) ==
    CASE node.type = "file" /\ node.data.fileType \in {"template", "helper", "notes"} -> 0
      [] node.type = "file" /\ node.data.fileType \in {"chart", "values"} -> 500
      [] node.type = "release" -> 500
      [] node.type = "value" -> IF HasDot(node.data.valuePath) THEN 1000 + 30 ELSE 1000
      [] node.type = "helper" -> 1600

HasIncidentEdge(n) ==
    \E e \in 1..Len(graph.edges) : n.id \in {graph.edges[e].source, graph.edges[e].target}

\* the column of a node that is no value node, "value" for a value node
columnOf(n) ==
    CASE n.type = "file" /\ n.data.fileType \in {"template", "helper", "notes"} -> "template"
      [] n.type = "file" /\ n.data.fileType \in {"chart", "values"} -> "metadata"
      [] n.type = "release" -> "metadata"
      [] n.type = "helper" -> "helper"
      [] n.type = "value" -> "value"

\* two nodes of the list that share a column other than the value column;
\* nodes with one id are one node to the layout
SameSortedColumn(i, j) ==
    /\ columnOf(graph.nodes[i]) = columnOf(graph.nodes[j])
    /\ columnOf(graph.nodes[i]) # "value"
    /\ graph.nodes[i].id # graph.nodes[j].id

Alphabet == <<".", "a", "b", "g", "h">>

letterRank(l) == CHOOSE r \in 1..Len(Alphabet) : Alphabet[r] = l

\* p comes before q in the dictionary
RECURSIVE LexBefore(_, _)
LexBefore(p, q) ==
    IF q = <<>> THEN FALSE
    ELSE IF p = <<>> THEN TRUE
    ELSE IF Head(p) # Head(q) THEN letterRank(Head(p)) < letterRank(Head(q))
    ELSE LexBefore(Tail(p), Tail(q))

\* the text of a path before its first dot, and the number of its segments
topLevelKey(p) == IF HasDot(p) THEN SubSeq(p, 1, Min({k \in 1..Len(p) : p[k] = "."}) - 1) ELSE p
pathDepth(p) == Cardinality({k \in 1..Len(p) : p[k] = "."}) + 1

\* the order of the value column: top-level key, then depth, then path
ValueBefore(p, q) ==
    \/ LexBefore(topLevelKey(p), topLevelKey(q))
    \/ topLevelKey(p) = topLevelKey(q) /\ pathDepth(p) < pathDepth(q)
    \/ topLevelKey(p) = topLevelKey(q) /\ pathDepth(p) = pathDepth(q) /\ LexBefore(p, q)

valueNodes == filter(graph.nodes, IsValueNode)

\* C24: in the layout autoOrganizeLayout returns the value nodes are ordered
\* top to bottom by top-level key alphabetically, then by path depth, then by
\* path, whatever the edges; a node is 70 below the node before it when both
\* have one top-level key, and 70 + 50 below it when a new group starts
C24_ValueNodesGrouped ==
    pc = "built" =>
        \A i, j \in 1..Len(valueNodes) :
            LET p == valueNodes[i].data.valuePath
                q == valueNodes[j].data.valuePath
                between == {k \in 1..Len(valueNodes) :
                               /\ ValueBefore(p, valueNodes[k].data.valuePath)
                               /\ ValueBefore(valueNodes[k].data.valuePath, q)}
            IN  ValueBefore(p, q) =>
                   /\ valueNodes[i].position.y < valueNodes[j].position.y
                   /\ between = {} =>
                         valueNodes[j].position.y - valueNodes[i].position.y
                            = IF topLevelKey(p) = topLevelKey(q) THEN 70 ELSE 70 + 50

\* a template that reads a.h, b, a.b.b, a and a.b: the value nodes are drawn
\* in the order a, a.b, a.h, a.b.b, b
C24_FiveValuesTwoGroups ==
    /\ pc = "built"
    /\ files = <<Entry(RootChartYaml, ChartDoc), Entry(DeployYaml, TextNested)>>
    /\ map(valueNodes, LAMBDA n : n.data.valuePath)
          = << <<"a", ".", "h">>, <<"b">>, <<"a", ".", "b", ".", "b">>, <<"a">>, <<"a", ".", "b">> >>
    /\ \E y \in 0..200 :
          map(valueNodes, LAMBDA n : n.position.y) = <<y + 140, y + 330, y + 210, y, y + 70>>

\* the y of the nodes of a column of the graph, and the columns that hold a node
columnYs(c) == {n.position.y : n \in {m \in Range(graph.nodes) : columnOf(m) = c}}
usedColumns == {columnOf(n) : n \in Range(graph.nodes)}
span(c) == Max(columnYs(c)) - Min(columnYs(c))
maxSpan == Max({span(c) : c \in usedColumns})

\* C25: after autoOrganizeLayout every non-empty column has
\* minY + maxY = maxSpan, the largest maxY - minY of a column: the columns
\* share their vertical midpoint, the tallest column starts at y = 0 and no
\* node has a negative y
C25_ColumnsCentered ==
    pc = "built" =>
        /\ \A c \in usedColumns : Min(columnYs(c)) + Max(columnYs(c)) = maxSpan
        /\ \A c \in usedColumns : span(c) = maxSpan => Min(columnYs(c)) = 0
        /\ \A n \in 1..Len(graph.nodes) : graph.nodes[n].position.y >= 0

\* a template that reads two values of two groups: the value column spans 120
\* and starts at 0, the template and the release node are at its midpoint
C25_CenteredOnValues ==
    /\ pc = "built"
    /\ files = <<Entry(DeployYaml, TextValues)>>
    /\ columnYs("value") = {0, 120}
    /\ columnYs("template") = {60}
    /\ columnYs("metadata") = {60}

(***************************************************************************)
(* Properties of the refinement loop of autoOrganizeLayout (SpecSweep).    *)
(***************************************************************************)
\* the layout the loop ends with is the one autoOrganizeLayout returns
SweepIsLayout == pc = "laid out" => layout1 = autoOrganizeLayout(nodes, edges)

\* the columns one sweep is to sort: 0, 1, 2, 3 and then 3, 2, 1, 0
FullSweep == <<0, 1, 2, 3, 3, 2, 1, 0>>

\* the calls of optimizeColumnOrder of sweep number k (from 0)
sweepCalls(k) ==
    SubSeq(sweepSorted, k * (Len(sweepSorted) \div Iterations) + 1,
           (k + 1) * (Len(sweepSorted) \div Iterations))

\* C22: each of the 5 sweeps of the refinement re-sorts the columns 0, 1, 2, 3
\* in its left-to-right pass and the columns 3, 2, 1, 0 in its right-to-left
\* pass, skipping none, each re-sort reading the positions as they are then
C22_EverySweepSortsEveryColumn ==
    pc = "refined" => \A k \in 0..(Iterations - 1) : sweepCalls(k) = FullSweep

\* a refinement that has ended after 5 sweeps of six calls each, on the
\* columns 1, 2, 3 and then 2, 1, 0
C22_RefinedInFiveSweeps ==
    /\ pc = "refined"
    /\ sweepIteration = 5
    /\ Len(nodes) = 3 /\ Len(edges) = 2
    /\ Len(sweepSorted) = 30
    /\ \A k \in 0..4 : sweepCalls(k) = <<1, 2, 3, 2, 1, 0>>

(***************************************************************************)
(* Properties of the drop handler (SpecDrop).                              *)
(***************************************************************************)
\* the files Map of handleDrop
ingested == IF frames = <<>> THEN <<>> ELSE frames[1].files

IsChartFileName(path) ==
    toLowerCase(getFileName(path)) \in {<<"chart", ".yaml">>, <<"chart", ".yml">>}

\* C13: the drop handler invokes onFilesDropped if and only if the file name
\* of an ingested path is, case-insensitively, chart.yaml or chart.yml;
\* otherwise it shows a rejection message and does not invoke it
C13_InvokedIffChartFile ==
    pc = "returned" =>
        /\ delivered # <<>> <=> \E k \in 1..Len(ingested) : IsChartFileName(ingested[k].path)
        /\ delivered = <<>> => error # NoError

\* a drop of a folder that holds values.yaml only is rejected
C13_ValuesOnlyRejected ==
    /\ pc = "returned"
    /\ dropped = <<DirectoryEntry(DropRoot, <<DropValuesFile>>)>>
    /\ ingested = <<Entry(DropValuesFile.fullPath, DropValuesFile.content)>>
    /\ delivered = <<>>
    /\ error = NoChartMessage

\* the paths of the files of a tree of entries
RECURSIVE filePaths(_)
filePaths(entries) ==
    UNION {IF entries[k].isFile THEN {entries[k].fullPath}
           ELSE IF entries[k].isDirectory THEN filePaths(entries[k].children)
           ELSE {} : k \in 1..Len(entries)}

\* C14: onFilesDropped is invoked at most once for a drop, only when every
\* listing and every read the drop started has finished, and with a mapping
\* that has an entry for every file of the dropped tree
C14_CompleteMappingOnce ==
    /\ Len(delivered) <= 1
    /\ delivered # <<>> =>
          /\ pending = NoPending
          /\ calls.started = calls.finished
          /\ \A path \in filePaths(dropped) :
                \E k \in 1..Len(delivered[1]) : delivered[1][k].path = path

\* a chart folder with a sub-folder is delivered whole, after its reads and
\* listings
C14_FolderDelivered ==
    /\ pc = "returned"
    /\ dropped = <<DirectoryEntry(DropRoot, <<DropChartFile, DropValuesFile, DropTemplates>>)>>
    /\ Len(delivered) = 1
    /\ {delivered[1][k].path : k \in 1..Len(delivered[1])} = filePaths(dropped)
    /\ calls.started = calls.finished /\ calls.finished > 4

(***************************************************************************)
(* Properties of the App (SpecApp).  delivered is the list of the files    *)
(* Maps handleFilesDropped was called with; a step that makes it longer is *)
(* a call of handleFilesDropped, from its first statement to its return.   *)
(***************************************************************************)
lastDelivered == delivered[Len(delivered)]
IsOfChart(path) ==
    helmChart # Null /\ \E k \in 1..Len(helmChart.files) : helmChart.files[k].path = path

\* C29: when parseHelmChart throws inside handleFilesDropped, helmChart and
\* selectedFile keep the values they had before the call, so no partial chart
\* is stored; whether it throws or not, isLoading is false when
\* handleFilesDropped has returned
C29_ThrowKeepsChartAndSelection ==
    [][Len(delivered') > Len(delivered) =>
          /\ isLoading' = FALSE
          /\ parseHelmChart(delivered'[Len(delivered')]).threw =>
                helmChart' = helmChart /\ selectedFile' = selectedFile]_vars

\* handleFilesDropped has returned from a call in which parseHelmChart threw,
\* made while a chart was on display and one of its files was selected
C29_ThrewWhileChartShown ==
    /\ pc = "app" /\ Len(delivered) = 2
    /\ parseHelmChart(lastDelivered).threw
    /\ helmChart # Null /\ selectedFile # Null /\ IsOfChart(selectedFile.v)
    /\ isLoading = FALSE

\* C26: in every reachable state of the App a non-null selectedFile is the
\* path of a file of the helmChart on display, whatever the order of drops,
\* clicks and Reset, and whatever the order in which two drops in flight end
C26_SelectedFileIsOfChart ==
    pc = "app" /\ selectedFile # Null => IsOfChart(selectedFile.v)

\* two drops were in flight together, both have ended with a chart, and a
\* file of the chart on display is selected
C26_TwoDropsEnded ==
    /\ pc = "app" /\ Len(delivered) = 2 /\ Len(inFlight) = 0
    /\ ~parseHelmChart(delivered[1]).threw /\ ~parseHelmChart(delivered[2]).threw
    /\ selectedFile # Null /\ IsOfChart(selectedFile.v)

\* the file items of a list of items, each with the names of the folder items
\* it is reached through followed by its own name
RECURSIVE fileItemsUnder(_, _)
fileItemsUnder(items, above) ==
    IF Len(items) = 0 THEN <<>>
    ELSE (IF items[1].type = "file"
          THEN <<[chain |-> Append(above, items[1].name), path |-> items[1].path]>>
          ELSE fileItemsUnder(items[1].children, Append(above, items[1].name)))
         \o fileItemsUnder(Tail(items), above)

DistinctPaths(helmFiles) ==
    \A i, j \in 1..Len(helmFiles) : helmFiles[i].path = helmFiles[j].path => i = j

\* C30: for chart files of pairwise distinct paths, the tree buildFileTree
\* returns holds every file exactly once as a file item, reached from the
\* root through the folder items named by the segments of its path, and holds
\* no other file item
C30_TreeHoldsEveryFile ==
    pc = "app" /\ helmChart # Null /\ DistinctPaths(helmChart.files) =>
        LET items == fileItemsUnder(fileTree, <<>>)
        IN  /\ \A k \in 1..Len(helmChart.files) :
                  Cardinality({i \in 1..Len(items) :
                      /\ items[i].path = helmChart.files[k].path
                      /\ items[i].chain = split(helmChart.files[k].path, "/")}) = 1
            /\ \A i \in 1..Len(items) :
                  \E k \in 1..Len(helmChart.files) : helmChart.files[k].path = items[i].path

\* the tree of a chart that has a file in the folder templates: it holds the
\* folder item templates, and the file at the root as a file item
C30_TreeOfChartWithFolder ==
    /\ pc = "app" /\ helmChart # Null /\ DistinctPaths(helmChart.files)
    /\ \E k \in 1..Len(helmChart.files) :
          split(helmChart.files[k].path, "/") = <<<<"templates">>, <<"deploy", ".yaml">>>>
    /\ \E i \in 1..Len(fileTree) :
          fileTree[i].type = "folder" /\ fileTree[i].name = <<"templates">>
    /\ \E i \in 1..Len(fileTree) :
          fileTree[i].type = "file" /\ fileTree[i].path = <<"Chart", ".yaml">>

====
